---- MODULE Spec2Model ----
(***************************************************************************)
(* Capability registry, permission resolver and command executor of the    *)
(* "grandfather" bot: database.py (the SQLite store), registry.py (the     *)
(* cached capability directory), utils/bot_handler.py (the transport       *)
(* handlers) and executor.py (the step-by-step command executor).          *)
(***************************************************************************)
EXTENDS Integers, Sequences, FiniteSets, TLC

VARIABLES
    capabilities,        \* table capabilities: <<bot_name, capability_id>> -> row
    custom_commands,     \* table custom_commands: command_name -> row
    audit_logs,          \* table audit_logs, in insertion order
    permissions,         \* table permissions, in insertion (rowid) order
    capabilities_cache,  \* CapabilityRegistry.capabilities_cache: key string -> dict
    bot_handlers,        \* CommandExecutor.bot_handlers: bot_name -> handler
    calls,               \* every handler invocation made so far, in order
    exec,                \* per caller: position and locals of the call in progress
    lastCall,            \* the last call of a returning entry point and its return value
    phase,               \* position of main(): "bootstrap" or "running"
    nCalls               \* number of execute_command calls started

vars == <<capabilities, custom_commands, audit_logs, permissions,
          capabilities_cache, bot_handlers, calls, exec, lastCall, phase,
          nCalls>>

----------------------------------------------------------------------------
(* Bounds of the exploration *)

MaxSteps == 3      \* longest step list given to save_custom_command
MaxGrants == 2     \* rows in the permissions table
MaxCalls == 1      \* execute_command calls per behaviour
MaxCaps == 2       \* rows in the capabilities table before a registry call
MaxItems == 2      \* longest list handed to the registry (descriptors, steps)

----------------------------------------------------------------------------
(* Values *)

NULL == "NULL"     \* SQL NULL / Python None

Users == {"alice", "bob"}
Bots == {"weather", "mail"}
CapIds == {"forecast", "send"}
Levels == {"read", "execute", "admin"}

\* the characters of the level names, as Python iterates a str
Chars(s) ==
    CASE s = "read" -> <<"r", "e", "a", "d">>
      [] s = "execute" -> <<"e", "x", "e", "c", "u", "t", "e">>
      [] s = "admin" -> <<"a", "d", "m", "i", "n">>

RECURSIVE JsonItems(_)
JsonItems(l) ==
    IF l = <<>> THEN <<>>
    ELSE <<"\"">> \o Chars(Head(l)) \o <<"\"">>
         \o (IF Len(l) > 1 THEN <<",", " ">> ELSE <<>>)
         \o JsonItems(Tail(l))

\* json.dumps of a list of strings: the text '["read", "admin"]', one
\* element per character
JsonDumps(l) == <<"[">> \o JsonItems(l) \o <<"]">>

\* json.dumps of the (empty) parameters dict: the text '{}'
JsonDumpsDict(d) == <<"{">> \o d \o <<"}">>

----------------------------------------------------------------------------
(* database.py: the Store *)

None == <<>>            \* an Optional that is absent
Some(v) == <<v>>        \* an Optional that is present

\* SQL "column = ?": never true when either side is NULL
SqlEq(col, param) == col # NULL /\ param # NULL /\ col = param

\* levels = {'read': 1, 'execute': 2, 'admin': 3}; levels.get(level, 0)
LevelRank(level) ==
    CASE level = "read" -> 1
      [] level = "execute" -> 2
      [] level = "admin" -> 3
      [] OTHER -> 0

\* a strict comparison in place of >=
permission_level_allows_strict(user_level, required_level) ==
    LevelRank(user_level) > LevelRank(required_level)

permission_level_allows(user_level, required_level) ==
    LevelRank(user_level) >= LevelRank(required_level)

\* the row stored last answers, as with ORDER BY id DESC
fetchone_latest(rows) == IF rows = <<>> THEN None ELSE Some(rows[Len(rows)])

\* cursor.fetchone() over a SELECT without ORDER BY: the first row in rowid order
fetchone(rows) == IF rows = <<>> THEN None ELSE Some(Head(rows))

CapabilityTier(table, user_id, bot_name, capability_id) ==
    SelectSeq(table, LAMBDA r: /\ r.user_id = user_id
                               /\ SqlEq(r.bot_name, bot_name)
                               /\ SqlEq(r.capability_id, capability_id))

BotTier(table, user_id, bot_name) ==
    SelectSeq(table, LAMBDA r: /\ r.user_id = user_id
                               /\ SqlEq(r.bot_name, bot_name)
                               /\ r.capability_id = NULL)

GlobalTier(table, user_id) ==
    SelectSeq(table, LAMBDA r: r.user_id = user_id /\ r.bot_name = NULL)

\* every tier consulted, the most permissive grant wins
check_permission_any_tier(table, user_id, bot_name, capability_id, permission_level) ==
    \E r \in {fetchone(CapabilityTier(table, user_id, bot_name, capability_id)),
              fetchone(BotTier(table, user_id, bot_name)),
              fetchone(GlobalTier(table, user_id))} \ {None} :
        permission_level_allows(r[1].permission_level, permission_level)

\* access allowed when no grant matches
check_permission_default_allow(table, user_id, bot_name, capability_id, permission_level) ==
    LET rows == CapabilityTier(table, user_id, bot_name, capability_id)
                \o BotTier(table, user_id, bot_name)
                \o GlobalTier(table, user_id)
    IN  IF rows = <<>> THEN TRUE
        ELSE permission_level_allows(rows[1].permission_level, permission_level)

check_permission(table, user_id, bot_name, capability_id, permission_level) ==
    LET row1 == fetchone(CapabilityTier(table, user_id, bot_name, capability_id))
        row2 == fetchone(BotTier(table, user_id, bot_name))
        row3 == fetchone(GlobalTier(table, user_id))
    IN  IF row1 # None
        THEN permission_level_allows(row1[1].permission_level, permission_level)
        ELSE IF row2 # None
        THEN permission_level_allows(row2[1].permission_level, permission_level)
        ELSE IF row3 # None
        THEN permission_level_allows(row3[1].permission_level, permission_level)
        ELSE FALSE

\* the row grant_permission inserts (no validation of the scope)
GrantRow(user_id, permission_level, bot_name, capability_id) ==
    [user_id |-> user_id, bot_name |-> bot_name,
     capability_id |-> capability_id, permission_level |-> permission_level]

\* no UNIQUE constraint: the INSERT always succeeds
db_register_capability_always(table, bot_name, capability_id) == TRUE

\* Database.register_capability: TRUE unless UNIQUE(bot_name, capability_id) fails
db_register_capability_ok(table, bot_name, capability_id) ==
    <<bot_name, capability_id>> \notin DOMAIN table

CapabilityRow(bot_name, capability_id, description, parameters, permissions_required) ==
    [bot_name |-> bot_name, capability_id |-> capability_id,
     description |-> description,
     parameters |-> JsonDumpsDict(parameters),
     permissions_required |-> JsonDumps(permissions_required)]

db_register_capability(table, bot_name, capability_id, description, parameters, permissions_required) ==
    IF db_register_capability_ok(table, bot_name, capability_id)
    THEN (<<bot_name, capability_id>> :>
            CapabilityRow(bot_name, capability_id, description, parameters,
                          permissions_required)) @@ table
    ELSE table

\* Database.get_capability: dict(row) or None
db_get_capability(table, bot_name, capability_id) ==
    IF <<bot_name, capability_id>> \in DOMAIN table
    THEN Some(table[<<bot_name, capability_id>>])
    ELSE None

\* the steps column: json.dumps(steps) on save, json.loads on load
StepsDumps(steps) == [json |-> steps]
StepsLoads(text) == text.json

\* no UNIQUE constraint on command_name: the INSERT takes the place of the row
save_custom_command_always(table, command_name) == TRUE

\* the INSERT succeeds unless UNIQUE(command_name) fails
save_custom_command_ok(table, command_name) == command_name \notin DOMAIN table

save_custom_command(table, command_name, description, steps, created_by) ==
    IF save_custom_command_ok(table, command_name)
    THEN (command_name :> [command_name |-> command_name,
                           description |-> description,
                           steps |-> StepsDumps(steps),
                           created_by |-> created_by,
                           enabled |-> 1]) @@ table
    ELSE table

\* an unknown name answered with a command of no steps
get_custom_command_empty(table, command_name) ==
    IF command_name \in DOMAIN table /\ table[command_name].enabled = 1
    THEN Some([table[command_name] EXCEPT !.steps = StepsLoads(@)])
    ELSE Some([command_name |-> command_name, description |-> NULL,
               steps |-> <<>>, created_by |-> NULL, enabled |-> 1])

\* Database.get_custom_command: enabled rows only, steps decoded
get_custom_command(table, command_name) ==
    IF command_name \in DOMAIN table /\ table[command_name].enabled = 1
    THEN Some([table[command_name] EXCEPT !.steps = StepsLoads(@)])
    ELSE None

\* the INSERT is lost when the action failed
log_action_success_only(table, action_type, user_id, details, success) ==
    IF success
    THEN Append(table, [action_type |-> action_type, user_id |-> user_id,
                        details |-> details, success |-> success])
    ELSE table

\* INSERT OR REPLACE: the entry takes the place of the earlier entries of the
\* same action and user
log_action_replacing(table, action_type, user_id, details, success) ==
    Append(SelectSeq(table, LAMBDA r : ~(r.action_type = action_type
                                          /\ r.user_id = user_id)),
           [action_type |-> action_type, user_id |-> user_id,
            details |-> details, success |-> success])

\* Database.log_action: one INSERT into audit_logs
log_action(table, action_type, user_id, details, success) ==
    Append(table, [action_type |-> action_type, user_id |-> user_id,
                   details |-> details, success |-> success])

----------------------------------------------------------------------------
(* registry.py: the capability directory *)

\* key = f"{bot_name}:{capability_id}"
CacheKey(bot_name, capability_id) == bot_name \o ":" \o capability_id

\* CapabilityRegistry._load_capabilities_from_db into an empty cache
load_capabilities_from_db(table) ==
    [key \in {CacheKey(k[1], k[2]) : k \in DOMAIN table} |->
        LET k == CHOOSE k \in DOMAIN table : CacheKey(k[1], k[2]) = key
        IN  table[k]]

\* the dict register_capability puts in the cache
CacheEntry(bot_name, capability_id, description, parameters, permissions_required) ==
    [bot_name |-> bot_name, capability_id |-> capability_id,
     description |-> description,
     parameters |-> parameters,
     permissions_required |-> permissions_required]

\* the cache alone answers: a miss is not looked up in the store
get_capability_cache_only(cache, table, bot_name, capability_id) ==
    LET key == CacheKey(bot_name, capability_id)
    IN  IF key \in DOMAIN cache THEN Some(cache[key]) ELSE None

\* CapabilityRegistry.get_capability: the value returned
get_capability(cache, table, bot_name, capability_id) ==
    LET key == CacheKey(bot_name, capability_id)
    IN  IF key \in DOMAIN cache THEN Some(cache[key])
        ELSE db_get_capability(table, bot_name, capability_id)

\* a row found in the store is returned but not kept
get_capability_cache_unfilled(cache, table, bot_name, capability_id) == cache

\* CapabilityRegistry.get_capability: the cache it leaves behind
get_capability_cache(cache, table, bot_name, capability_id) ==
    LET key == CacheKey(bot_name, capability_id)
        cap == db_get_capability(table, bot_name, capability_id)
    IN  IF key \in DOMAIN cache THEN cache
        ELSE IF cap # None THEN (key :> cap[1]) @@ cache
        ELSE cache

\* Python truthiness of an Optional[str]: "not s" holds for None and for ''
Falsy(s) == s = NULL \/ s = ""

\* the result validate_command_steps returns, with the cache its lookups leave
ValidationResult(ok, error, cache) == [ok |-> ok, error |-> error, cache |-> cache]

RECURSIVE validate_command_steps_unresolved(_, _, _, _)
RECURSIVE validate_command_steps(_, _, _, _)

\* the lookup of the registry left out: a well-formed step is accepted
validate_command_steps_unresolved(cache, table, steps, i) ==
    IF i = Len(steps) THEN ValidationResult(TRUE, None, cache)
    ELSE IF Falsy(steps[i + 1].bot_name) \/ Falsy(steps[i + 1].capability_id)
    THEN ValidationResult(FALSE, Some([text |-> "missing bot_name or capability_id",
                                       step |-> i + 1]), cache)
    ELSE validate_command_steps_unresolved(cache, table, steps, i + 1)

\* CapabilityRegistry.validate_command_steps from the step of index i on
validate_command_steps(cache, table, steps, i) ==
    IF i = Len(steps) THEN ValidationResult(TRUE, None, cache)
    ELSE IF Falsy(steps[i + 1].bot_name) \/ Falsy(steps[i + 1].capability_id)
    THEN ValidationResult(FALSE, Some([text |-> "missing bot_name or capability_id",
                                       step |-> i + 1]), cache)
    ELSE IF get_capability(cache, table, steps[i + 1].bot_name,
                           steps[i + 1].capability_id) = None
    THEN ValidationResult(FALSE, Some([text |-> "Capability not found",
                                       step |-> i + 1]), cache)
    ELSE validate_command_steps(
             get_capability_cache(cache, table, steps[i + 1].bot_name,
                                  steps[i + 1].capability_id),
             table, steps, i + 1)

----------------------------------------------------------------------------
(* utils/bot_handler.py: the transport handlers *)

HandlerTypes == {"mock", "http", "websocket", "function"}

Returned(dict) == [raised |-> FALSE, value |-> dict, error |-> NULL]
Raised(text) == [raised |-> TRUE, value |-> [status |-> NULL, error |-> NULL],
                 error |-> text]

\* what one handler.execute_capability call can do, per variant; the HTTP
\* variant depends on the remote service, a plain function handler is free to
\* return or to raise
HandlerOutcomes(type) ==
    CASE type = "mock" ->
            {Returned([status |-> "success", error |-> NULL])}
      [] type = "http" ->
            {Returned([status |-> "success", error |-> NULL]),
             Returned([status |-> "error", error |-> "HTTPError"])}
      [] type = "websocket" ->
            {Returned([status |-> "error",
                       error |-> "WebSocket handler not yet implemented"])}
      [] type = "function" ->
            {Returned([status |-> "success", error |-> NULL]),
             Raised("RuntimeError")}

----------------------------------------------------------------------------
(* executor.py: the command executor *)

\* an exception of the handler taken for a normal return
execute_step_uncaught(handlers, bot_name, outcome) ==
    IF bot_name \notin DOMAIN handlers
    THEN [success |-> FALSE, result |-> None, error |-> "No handler registered"]
    ELSE [success |-> TRUE, result |-> Some(outcome.value), error |-> NULL]

\* a bot without a handler is skipped: the step counts as done
execute_step_unbound_skipped(handlers, bot_name, outcome) ==
    IF bot_name \notin DOMAIN handlers
    THEN [success |-> TRUE, result |-> None, error |-> NULL]
    ELSE IF outcome.raised
    THEN [success |-> FALSE, result |-> None, error |-> outcome.error]
    ELSE [success |-> TRUE, result |-> Some(outcome.value), error |-> NULL]

\* CommandExecutor._execute_step once the handler (if any) has acted
execute_step(handlers, bot_name, outcome) ==
    IF bot_name \notin DOMAIN handlers
    THEN [success |-> FALSE, result |-> None, error |-> "No handler registered"]
    ELSE IF outcome.raised
    THEN [success |-> FALSE, result |-> None, error |-> outcome.error]
    ELSE [success |-> TRUE, result |-> Some(outcome.value), error |-> NULL]

\* the for/break loop over permissions_required
has_permission(table, user_id, bot_name, capability_id, permissions_required) ==
    \E n \in 1..Len(permissions_required) :
        check_permission(table, user_id, bot_name, capability_id,
                         permissions_required[n])

\* "if permissions_required:" and the loop: TRUE when the step may be dispatched
permission_gate(table, user_id, bot_name, capability_id, capability) ==
    LET permissions_required == capability.permissions_required
    IN  IF Len(permissions_required) > 0
        THEN has_permission(table, user_id, bot_name, capability_id,
                            permissions_required)
        ELSE TRUE

\* the handler's possible behaviours for a dispatch to bot_name; without a
\* handler in the table nothing is called
NotCalled == [raised |-> FALSE, value |-> [status |-> NULL, error |-> NULL],
              error |-> NULL]

DispatchOutcomes(handlers, bot_name) ==
    IF bot_name \in DOMAIN handlers
    THEN HandlerOutcomes(handlers[bot_name])
    ELSE {NotCalled}

RecordCall(handlers, log, record) ==
    IF record.bot_name \in DOMAIN handlers THEN Append(log, record) ELSE log

Idle == [pc |-> "idle", id |-> 0, command_name |-> NULL, steps |-> <<>>,
         i |-> 0, results |-> <<>>, result |-> [success |-> FALSE]]

\* the outcomes numbered from 0, like the loop index
StepOutcome_zero_based(step_num, bot_name, capability_id, step_result) ==
    [step |-> step_num - 1, bot_name |-> bot_name,
     capability_id |-> capability_id, success |-> step_result.success,
     result |-> step_result.result, error |-> step_result.error]

\* lines 149-156: the outcome appended to results

StepOutcome(step_num, bot_name, capability_id, step_result) ==
    [step |-> step_num, bot_name |-> bot_name, capability_id |-> capability_id,
     success |-> step_result.success, result |-> step_result.result,
     error |-> step_result.error]

CallRecord(e, id, step_num, bot_name, capability_id, outcome) ==
    [caller |-> e, id |-> id, step |-> step_num, bot_name |-> bot_name,
     capability_id |-> capability_id, outcome |-> outcome]

\* the return statement of execute_command together with the log_action before it
Return(e, results, result, details) ==
    /\ audit_logs' = log_action(audit_logs, "command_executed", e, details,
                                result.success)
    /\ exec' = [exec EXCEPT ![e].pc = "done", ![e].results = results,
                            ![e].result = result]

\* the last step left out of the count
Complete_short(e, command_name, steps, results) ==
    Return(e, results,
           [success |-> TRUE, steps_executed |-> Len(steps) - 1,
            total_steps |-> Len(steps), results |-> results],
           [command_name |-> command_name, steps_executed |-> Len(steps) - 1,
            results |-> results])

\* lines 203-222: every step has been dispatched successfully
Complete(e, command_name, steps, results) ==
    Return(e, results,
           [success |-> TRUE, steps_executed |-> Len(steps),
            total_steps |-> Len(steps), results |-> results],
           [command_name |-> command_name, steps_executed |-> Len(steps),
            results |-> results])

\* a command is disabled in the store once it has been loaded for execution
ExecuteCommand_disabling(e, command_name) ==
    LET command == get_custom_command(custom_commands, command_name)
    IN  /\ exec[e].pc # "running"
        /\ nCalls < MaxCalls
        /\ nCalls' = nCalls + 1
        /\ IF command = None
           THEN /\ audit_logs' = log_action(audit_logs, "command_executed", e,
                                    [command_name |-> command_name,
                                     error |-> "Command not found"], FALSE)
                /\ exec' = [exec EXCEPT ![e] =
                             [Idle EXCEPT !.pc = "done", !.id = nCalls + 1,
                                !.command_name = command_name,
                                !.result = [success |-> FALSE,
                                            error |-> [text |-> "Command not found",
                                                       command_name |-> command_name]]]]
                /\ UNCHANGED custom_commands
           ELSE IF command[1].steps = <<>>
           THEN /\ audit_logs' = log_action(audit_logs, "command_executed", e,
                                    [command_name |-> command_name,
                                     steps_executed |-> 0, results |-> <<>>], TRUE)
                /\ exec' = [exec EXCEPT ![e] =
                             [Idle EXCEPT !.pc = "done", !.id = nCalls + 1,
                                !.command_name = command_name,
                                !.result = [success |-> TRUE, steps_executed |-> 0,
                                            total_steps |-> 0, results |-> <<>>]]]
                /\ custom_commands' =
                      [custom_commands EXCEPT ![command_name].enabled = 0]
           ELSE /\ exec' = [exec EXCEPT ![e] =
                             [Idle EXCEPT !.pc = "running", !.id = nCalls + 1,
                                !.command_name = command_name,
                                !.steps = command[1].steps]]
                /\ custom_commands' =
                      [custom_commands EXCEPT ![command_name].enabled = 0]
                /\ UNCHANGED audit_logs
        /\ UNCHANGED <<capabilities, permissions, capabilities_cache,
                       bot_handlers, calls>>

\* execute_command, lines 63-84 (and 203-222 when the step list is empty):
\* the command is loaded and the loop entered
StartCommand(e, command_name) ==
    LET command == get_custom_command(custom_commands, command_name)
    IN  /\ exec[e].pc # "running"
        /\ nCalls' = nCalls + 1
        /\ IF command = None
           THEN /\ audit_logs' = log_action(audit_logs, "command_executed", e,
                                    [command_name |-> command_name,
                                     error |-> "Command not found"], FALSE)
                /\ exec' = [exec EXCEPT ![e] =
                             [Idle EXCEPT !.pc = "done", !.id = nCalls + 1,
                                !.command_name = command_name,
                                !.result = [success |-> FALSE,
                                            error |-> [text |-> "Command not found",
                                                       command_name |-> command_name]]]]
           ELSE IF command[1].steps = <<>>
           THEN /\ audit_logs' = log_action(audit_logs, "command_executed", e,
                                    [command_name |-> command_name,
                                     steps_executed |-> 0, results |-> <<>>], TRUE)
                /\ exec' = [exec EXCEPT ![e] =
                             [Idle EXCEPT !.pc = "done", !.id = nCalls + 1,
                                !.command_name = command_name,
                                !.result = [success |-> TRUE, steps_executed |-> 0,
                                            total_steps |-> 0, results |-> <<>>]]]
           ELSE /\ exec' = [exec EXCEPT ![e] =
                             [Idle EXCEPT !.pc = "running", !.id = nCalls + 1,
                                !.command_name = command_name,
                                !.steps = command[1].steps]]
                /\ UNCHANGED audit_logs
        /\ UNCHANGED <<capabilities, custom_commands, permissions,
                       capabilities_cache, bot_handlers, calls>>

\* an execute_command call, as long as the behaviour may start one
ExecuteCommand(e, command_name) ==
    nCalls < MaxCalls /\ StartCommand(e, command_name)

\* the unresolved step counted as executed
CapabilityNotFound_counted(i, steps, results) ==
    [success |-> FALSE, steps_executed |-> i + 1, total_steps |-> Len(steps),
     results |-> results,
     error |-> [text |-> "Capability not found", step |-> i + 1,
                capability_id |-> steps[i + 1].capability_id,
                bot_name |-> steps[i + 1].bot_name]]

\* lines 92-112: the result returned when the capability of step i does not resolve
CapabilityNotFound(i, steps, results) ==
    [success |-> FALSE, steps_executed |-> i, total_steps |-> Len(steps),
     results |-> results,
     error |-> [text |-> "Capability not found", step |-> i + 1,
                capability_id |-> steps[i + 1].capability_id,
                bot_name |-> steps[i + 1].bot_name]]

\* the denied step counted as executed
PermissionDenied_counted(i, steps, results) ==
    [success |-> FALSE, steps_executed |-> i + 1, total_steps |-> Len(steps),
     results |-> results,
     error |-> [text |-> "Permission denied", step |-> i + 1,
                capability_id |-> steps[i + 1].capability_id]]

\* lines 124-144: the result returned when the permission gate of step i denies
PermissionDenied(i, steps, results) ==
    [success |-> FALSE, steps_executed |-> i, total_steps |-> Len(steps),
     results |-> results,
     error |-> [text |-> "Permission denied", step |-> i + 1,
                capability_id |-> steps[i + 1].capability_id]]

\* lines 158-179: the result returned when the dispatch of step i failed;
\* results already holds the outcome of step i
StepFailed(i, steps, results) ==
    [success |-> FALSE, steps_executed |-> i + 1, total_steps |-> Len(steps),
     results |-> results,
     error |-> [text |-> "failed", step |-> i + 1,
                cause |-> results[i + 1].error]]

\* a failed step does not stop the loop
never_stops(step_result) == FALSE

\* the loop goes on after a step that found no handler
stops_execution_unless_unbound(step_result) ==
    ~step_result.success /\ step_result.error # "No handler registered"

\* line 158: "if not step_result.get('success', False)"
stops_execution(step_result) == ~step_result.success

\* the list of outcomes kept on the executor and shared by the calls in
\* progress: an iteration appends to the longest list any call has
ExecStep_shared(e) ==
    /\ exec[e].pc = "running"
    /\ LET o == CHOOSE o \in Users :
                   \A p \in Users : Len(exec[o].results) >= Len(exec[p].results)
           x == [exec[e] EXCEPT !.results = exec[o].results]
           i == x.i
           step_num == i + 1
           step == x.steps[step_num]
           bot_name == step.bot_name
           capability_id == step.capability_id
           capability == get_capability(capabilities_cache, capabilities,
                                        bot_name, capability_id)
           Failure(result) ==
               Return(e, result.results, result,
                      [command_name |-> x.command_name, step |-> step_num,
                       error |-> result.error])
       IN  /\ capabilities_cache' =
                 get_capability_cache(capabilities_cache, capabilities,
                                      bot_name, capability_id)
           /\ IF capability = None
              THEN /\ Failure(CapabilityNotFound(i, x.steps, x.results))
                   /\ UNCHANGED calls
              ELSE IF ~permission_gate(permissions, e, bot_name, capability_id,
                                       capability[1])
              THEN /\ Failure(PermissionDenied(i, x.steps, x.results))
                   /\ UNCHANGED calls
              ELSE \E outcome \in DispatchOutcomes(bot_handlers, bot_name) :
                   LET step_result == execute_step(bot_handlers, bot_name, outcome)
                       results == Append(x.results,
                                         StepOutcome(step_num, bot_name,
                                                     capability_id, step_result))
                   IN  /\ calls' = RecordCall(bot_handlers, calls,
                                      CallRecord(e, x.id, step_num, bot_name,
                                                 capability_id, outcome))
                       /\ IF stops_execution(step_result)
                          THEN Failure(StepFailed(i, x.steps, results))
                          ELSE IF step_num = Len(x.steps)
                          THEN Complete(e, x.command_name, x.steps, results)
                          ELSE /\ exec' = [exec EXCEPT ![e].i = i + 1,
                                                       ![e].results = results]
                               /\ UNCHANGED audit_logs
    /\ UNCHANGED <<capabilities, custom_commands, permissions, bot_handlers,
                   nCalls>>

\* a step whose dispatch failed is dispatched a second time before the call
\* gives up
ExecStep_retrying(e) ==
    /\ exec[e].pc = "running"
    /\ LET x == exec[e]
           i == x.i
           step_num == i + 1
           step == x.steps[step_num]
           bot_name == step.bot_name
           capability_id == step.capability_id
           capability == get_capability(capabilities_cache, capabilities,
                                        bot_name, capability_id)
           retried == \E c \in DOMAIN calls : /\ calls[c].caller = e
                                              /\ calls[c].id = x.id
                                              /\ calls[c].step = step_num
           Failure(result) ==
               Return(e, result.results, result,
                      [command_name |-> x.command_name, step |-> step_num,
                       error |-> result.error])
       IN  /\ capabilities_cache' =
                 get_capability_cache(capabilities_cache, capabilities,
                                      bot_name, capability_id)
           /\ IF capability = None
              THEN /\ Failure(CapabilityNotFound(i, x.steps, x.results))
                   /\ UNCHANGED calls
              ELSE IF ~permission_gate(permissions, e, bot_name, capability_id,
                                       capability[1])
              THEN /\ Failure(PermissionDenied(i, x.steps, x.results))
                   /\ UNCHANGED calls
              ELSE \E outcome \in DispatchOutcomes(bot_handlers, bot_name) :
                   LET step_result == execute_step(bot_handlers, bot_name, outcome)
                       results == Append(x.results,
                                         StepOutcome(step_num, bot_name,
                                                     capability_id, step_result))
                   IN  /\ calls' = RecordCall(bot_handlers, calls,
                                      CallRecord(e, x.id, step_num, bot_name,
                                                 capability_id, outcome))
                       /\ IF stops_execution(step_result) /\ ~retried
                          THEN UNCHANGED <<exec, audit_logs>>
                          ELSE IF stops_execution(step_result)
                          THEN Failure(StepFailed(i, x.steps, results))
                          ELSE IF step_num = Len(x.steps)
                          THEN Complete(e, x.command_name, x.steps, results)
                          ELSE /\ exec' = [exec EXCEPT ![e].i = i + 1,
                                                       ![e].results = results]
                               /\ UNCHANGED audit_logs
    /\ UNCHANGED <<capabilities, custom_commands, permissions, bot_handlers,
                   nCalls>>

\* execute_command, lines 84-222: one iteration of the loop over the steps; the
\* iteration of the last step runs on into the final log_action and return
ExecStep(e) ==
    /\ exec[e].pc = "running"
    /\ LET x == exec[e]
           i == x.i
           step_num == i + 1
           step == x.steps[step_num]
           bot_name == step.bot_name
           capability_id == step.capability_id
           capability == get_capability(capabilities_cache, capabilities,
                                        bot_name, capability_id)
           Failure(result) ==
               Return(e, result.results, result,
                      [command_name |-> x.command_name, step |-> step_num,
                       error |-> result.error])
       IN  /\ capabilities_cache' =
                 get_capability_cache(capabilities_cache, capabilities,
                                      bot_name, capability_id)
           /\ IF capability = None
              THEN /\ Failure(CapabilityNotFound(i, x.steps, x.results))
                   /\ UNCHANGED calls
              ELSE IF ~permission_gate(permissions, e, bot_name, capability_id,
                                       capability[1])
              THEN /\ Failure(PermissionDenied(i, x.steps, x.results))
                   /\ UNCHANGED calls
              ELSE \E outcome \in DispatchOutcomes(bot_handlers, bot_name) :
                   LET step_result == execute_step(bot_handlers, bot_name, outcome)
                       results == Append(x.results,
                                         StepOutcome(step_num, bot_name,
                                                     capability_id, step_result))
                   IN  /\ calls' = RecordCall(bot_handlers, calls,
                                      CallRecord(e, x.id, step_num, bot_name,
                                                 capability_id, outcome))
                       /\ IF stops_execution(step_result)
                          THEN Failure(StepFailed(i, x.steps, results))
                          ELSE IF step_num = Len(x.steps)
                          THEN Complete(e, x.command_name, x.steps, results)
                          ELSE /\ exec' = [exec EXCEPT ![e].i = i + 1,
                                                       ![e].results = results]
                               /\ UNCHANGED audit_logs
    /\ UNCHANGED <<capabilities, custom_commands, permissions, bot_handlers,
                   nCalls>>

\* the direct step audited the way a command execution is
ExecuteDirectStep_audited(user_id, bot_name, capability_id) ==
    LET capability == get_capability(capabilities_cache, capabilities,
                                     bot_name, capability_id)
        Answer(result) ==
            /\ lastCall' = [op |-> "execute_direct_step", user_id |-> user_id,
                            bot_name |-> bot_name,
                            capability_id |-> capability_id, value |-> result]
            /\ audit_logs' = log_action(audit_logs, "command_executed", user_id,
                                        [bot_name |-> bot_name,
                                         capability_id |-> capability_id],
                                        result.success)
    IN  /\ nCalls < MaxCalls
        /\ nCalls' = nCalls + 1
        /\ capabilities_cache' =
              get_capability_cache(capabilities_cache, capabilities,
                                   bot_name, capability_id)
        /\ IF capability = None
           THEN /\ Answer([success |-> FALSE, result |-> None,
                           error |-> "Capability not found"])
                /\ UNCHANGED calls
           ELSE IF ~permission_gate(permissions, user_id, bot_name,
                                    capability_id, capability[1])
           THEN /\ Answer([success |-> FALSE, result |-> None,
                           error |-> "Permission denied"])
                /\ UNCHANGED calls
           ELSE \E outcome \in DispatchOutcomes(bot_handlers, bot_name) :
                /\ calls' = RecordCall(bot_handlers, calls,
                               CallRecord(user_id, 0, 0, bot_name,
                                          capability_id, outcome))
                /\ Answer(execute_step(bot_handlers, bot_name, outcome))
        /\ UNCHANGED <<capabilities, custom_commands, permissions,
                       bot_handlers, exec>>

\* the direct step dispatched without the permission check
ExecuteDirectStep_ungated(user_id, bot_name, capability_id) ==
    LET capability == get_capability(capabilities_cache, capabilities,
                                     bot_name, capability_id)
        Answer(result) ==
            lastCall' = [op |-> "execute_direct_step", user_id |-> user_id,
                         bot_name |-> bot_name, capability_id |-> capability_id,
                         value |-> result]
    IN  /\ nCalls < MaxCalls
        /\ nCalls' = nCalls + 1
        /\ capabilities_cache' =
              get_capability_cache(capabilities_cache, capabilities,
                                   bot_name, capability_id)
        /\ IF capability = None
           THEN /\ Answer([success |-> FALSE, result |-> None,
                           error |-> "Capability not found"])
                /\ UNCHANGED calls
           ELSE \E outcome \in DispatchOutcomes(bot_handlers, bot_name) :
                /\ calls' = RecordCall(bot_handlers, calls,
                               CallRecord(user_id, 0, 0, bot_name,
                                          capability_id, outcome))
                /\ Answer(execute_step(bot_handlers, bot_name, outcome))
        /\ UNCHANGED <<capabilities, custom_commands, audit_logs, permissions,
                       bot_handlers, exec>>

\* execute_direct_step: one ad-hoc step for user_id
ExecuteDirectStep(user_id, bot_name, capability_id) ==
    LET capability == get_capability(capabilities_cache, capabilities,
                                     bot_name, capability_id)
        Answer(result) ==
            lastCall' = [op |-> "execute_direct_step", user_id |-> user_id,
                         bot_name |-> bot_name, capability_id |-> capability_id,
                         value |-> result]
    IN  /\ nCalls < MaxCalls
        /\ nCalls' = nCalls + 1
        /\ capabilities_cache' =
              get_capability_cache(capabilities_cache, capabilities,
                                   bot_name, capability_id)
        /\ IF capability = None
           THEN /\ Answer([success |-> FALSE, result |-> None,
                           error |-> "Capability not found"])
                /\ UNCHANGED calls
           ELSE IF ~permission_gate(permissions, user_id, bot_name,
                                    capability_id, capability[1])
           THEN /\ Answer([success |-> FALSE, result |-> None,
                           error |-> "Permission denied"])
                /\ UNCHANGED calls
           ELSE \E outcome \in DispatchOutcomes(bot_handlers, bot_name) :
                /\ calls' = RecordCall(bot_handlers, calls,
                               CallRecord(user_id, 0, 0, bot_name,
                                          capability_id, outcome))
                /\ Answer(execute_step(bot_handlers, bot_name, outcome))
        /\ UNCHANGED <<capabilities, custom_commands, audit_logs, permissions,
                       bot_handlers, exec>>

\* execute_command as a function of the store, the cache, the handler table
\* and the outcomes of the handler calls (outcomes[n] for step n): the result
\* the loop returns from the step of index i on
RECURSIVE execute_command_steps(_, _, _, _, _)
execute_command_steps(user_id, steps, i, results, outcomes) ==
    IF i = Len(steps)
    THEN [success |-> TRUE, steps_executed |-> Len(steps),
          total_steps |-> Len(steps), results |-> results]
    ELSE LET step_num == i + 1
             bot_name == steps[step_num].bot_name
             capability_id == steps[step_num].capability_id
             capability == get_capability(capabilities_cache, capabilities,
                                          bot_name, capability_id)
         IN  IF capability = None
             THEN CapabilityNotFound(i, steps, results)
             ELSE IF ~permission_gate(permissions, user_id, bot_name,
                                      capability_id, capability[1])
             THEN PermissionDenied(i, steps, results)
             ELSE LET step_result == execute_step(bot_handlers, bot_name,
                                                  outcomes[step_num])
                      after == Append(results,
                                      StepOutcome(step_num, bot_name,
                                                  capability_id, step_result))
                  IN  IF stops_execution(step_result)
                      THEN StepFailed(i, steps, after)
                      ELSE execute_command_steps(user_id, steps, i + 1, after,
                                                 outcomes)

\* execute_command run from its first line to its return
execute_command(user_id, command_name, outcomes) ==
    LET command == get_custom_command(custom_commands, command_name)
    IN  IF command = None
        THEN [success |-> FALSE,
              error |-> [text |-> "Command not found",
                         command_name |-> command_name]]
        ELSE execute_command_steps(user_id, command[1].steps, 0, <<>>, outcomes)

\* CommandExecutor.register_bot_handler
RegisterBotHandler(bot_name, type) ==
    /\ bot_handlers' = (bot_name :> type) @@ bot_handlers
    /\ UNCHANGED <<capabilities, custom_commands, audit_logs, permissions,
                   capabilities_cache, calls, exec, nCalls>>

----------------------------------------------------------------------------
(* Operations of the registry and the store, as actions *)

\* CapabilityRegistry.register_capability on the registry state
\* reg = [capabilities, capabilities_cache, audit_logs]: the state it leaves
register_capability(reg, bot_name, capability_id, description, parameters, permissions_required) ==
    IF db_register_capability_ok(reg.capabilities, bot_name, capability_id)
    THEN [capabilities |->
             db_register_capability(reg.capabilities, bot_name, capability_id,
                                    description, parameters, permissions_required),
          capabilities_cache |->
             (CacheKey(bot_name, capability_id) :>
                CacheEntry(bot_name, capability_id, description, parameters,
                           permissions_required))
             @@ reg.capabilities_cache,
          audit_logs |->
             log_action(reg.audit_logs, "capability_registered", NULL,
                        [bot_name |-> bot_name, capability_id |-> capability_id,
                         description |-> description], TRUE)]
    ELSE reg

Registry == [capabilities |-> capabilities,
             capabilities_cache |-> capabilities_cache,
             audit_logs |-> audit_logs]

SetRegistry(reg) ==
    /\ capabilities' = reg.capabilities
    /\ capabilities_cache' = reg.capabilities_cache
    /\ audit_logs' = reg.audit_logs

\* CapabilityRegistry.register_capability as a call
RegisterCapability(bot_name, capability_id, description, parameters, permissions_required) ==
    /\ SetRegistry(register_capability(Registry, bot_name, capability_id,
                                       description, parameters,
                                       permissions_required))
    /\ UNCHANGED <<custom_commands, permissions, bot_handlers, calls, exec,
                   nCalls>>

\* CapabilityRegistry.register_capability statement by statement, for caller p
\* whose position and arguments are kept in exec[p]

\* the locals of a register_capability call at position pc
RegisterFrame(pc, bot_name, capability_id, description, parameters, permissions_required, success) ==
    [pc |-> pc, bot_name |-> bot_name, capability_id |-> capability_id,
     description |-> description, parameters |-> parameters,
     permissions_required |-> permissions_required, success |-> success]

\* a rejected registration leaves its description in the cache
RegisterInsert_caching(p, bot_name, capability_id, description, parameters, permissions_required) ==
    LET success == db_register_capability_ok(capabilities, bot_name, capability_id)
    IN  /\ exec[p].pc = "idle"
        /\ capabilities' = db_register_capability(capabilities, bot_name,
                               capability_id, description, parameters,
                               permissions_required)
        /\ capabilities_cache' =
              IF success THEN capabilities_cache
              ELSE (CacheKey(bot_name, capability_id) :>
                      CacheEntry(bot_name, capability_id, description, parameters,
                                 permissions_required)) @@ capabilities_cache
        /\ exec' = [exec EXCEPT ![p] =
                      RegisterFrame(IF success THEN "inserted" ELSE "returned",
                                    bot_name, capability_id, description,
                                    parameters, permissions_required, success)]
        /\ UNCHANGED <<custom_commands, audit_logs, permissions, bot_handlers,
                       calls, nCalls>>

\* INSERT OR REPLACE: the statement succeeds on a key that exists and the row
\* is replaced
RegisterInsert_replacing(p, bot_name, capability_id, description, parameters, permissions_required) ==
    /\ exec[p].pc = "idle"
    /\ capabilities' =
          (<<bot_name, capability_id>> :>
              CapabilityRow(bot_name, capability_id, description, parameters,
                            permissions_required)) @@ capabilities
    /\ exec' = [exec EXCEPT ![p] =
                  RegisterFrame("inserted", bot_name, capability_id, description,
                                parameters, permissions_required, TRUE)]
    /\ UNCHANGED <<custom_commands, audit_logs, permissions, capabilities_cache,
                   bot_handlers, calls, nCalls>>

\* lines 46-48: success = self.db.register_capability(...), one INSERT; a
\* call that was rejected goes on to "return success"
RegisterInsert(p, bot_name, capability_id, description, parameters, permissions_required) ==
    LET success == db_register_capability_ok(capabilities, bot_name, capability_id)
    IN  /\ exec[p].pc = "idle"
        /\ capabilities' = db_register_capability(capabilities, bot_name,
                               capability_id, description, parameters,
                               permissions_required)
        /\ exec' = [exec EXCEPT ![p] =
                      RegisterFrame(IF success THEN "inserted" ELSE "returned",
                                    bot_name, capability_id, description,
                                    parameters, permissions_required, success)]
        /\ UNCHANGED <<custom_commands, audit_logs, permissions,
                       capabilities_cache, bot_handlers, calls, nCalls>>

\* lines 49-58: "if success:" the cache entry is written
RegisterUpdateCache(p) ==
    /\ exec[p].pc = "inserted"
    /\ capabilities_cache' =
          (CacheKey(exec[p].bot_name, exec[p].capability_id) :>
              CacheEntry(exec[p].bot_name, exec[p].capability_id,
                         exec[p].description, exec[p].parameters,
                         exec[p].permissions_required)) @@ capabilities_cache
    /\ exec' = [exec EXCEPT ![p].pc = "cached"]
    /\ UNCHANGED <<capabilities, custom_commands, audit_logs, permissions,
                   bot_handlers, calls, nCalls>>

\* lines 59-68: the registration is logged and success returned
RegisterLogAction(p) ==
    /\ exec[p].pc = "cached"
    /\ audit_logs' = log_action(audit_logs, "capability_registered", NULL,
                                [bot_name |-> exec[p].bot_name,
                                 capability_id |-> exec[p].capability_id,
                                 description |-> exec[p].description], TRUE)
    /\ exec' = [exec EXCEPT ![p].pc = "returned"]
    /\ UNCHANGED <<capabilities, custom_commands, permissions,
                   capabilities_cache, bot_handlers, calls, nCalls>>

\* bot_loader.py, lines 183-200: the loop over the manual capabilities of a
\* configuration file; entries without a capability_id are skipped
RECURSIVE register_manual_capabilities(_, _, _)
register_manual_capabilities(reg, bot_name, caps) ==
    IF caps = <<>> THEN reg
    ELSE LET cap == Head(caps)
             next == IF cap.capability_id = NULL THEN reg
                     ELSE register_capability(reg, bot_name, cap.capability_id,
                                              cap.description, cap.parameters,
                                              cap.permissions_required)
         IN  register_manual_capabilities(next, bot_name, Tail(caps))

RECURSIVE register_capabilities_from_api_attempts(_, _, _, _)
RECURSIVE register_capabilities_from_api(_, _, _, _)

\* every descriptor that has a capability_id counted, registered or not
register_capabilities_from_api_attempts(reg, count, bot_name, caps) ==
    IF caps = <<>> THEN [reg |-> reg, count |-> count]
    ELSE LET cap == Head(caps)
         IN  IF Falsy(cap.capability_id)
             THEN register_capabilities_from_api_attempts(reg, count, bot_name,
                                                          Tail(caps))
             ELSE register_capabilities_from_api_attempts(
                      register_capability(reg, bot_name, cap.capability_id,
                                          cap.description, cap.parameters,
                                          cap.permissions_required),
                      count + 1, bot_name, Tail(caps))

\* CapabilityRegistry.register_capabilities_from_api: the loop over the
\* descriptors, from the registry state reg and the count so far
register_capabilities_from_api(reg, count, bot_name, caps) ==
    IF caps = <<>> THEN [reg |-> reg, count |-> count]
    ELSE LET cap == Head(caps)
         IN  IF Falsy(cap.capability_id)
             THEN register_capabilities_from_api(reg, count, bot_name, Tail(caps))
             ELSE register_capabilities_from_api(
                      register_capability(reg, bot_name, cap.capability_id,
                                          cap.description, cap.parameters,
                                          cap.permissions_required),
                      IF db_register_capability_ok(reg.capabilities, bot_name,
                                                   cap.capability_id)
                      THEN count + 1 ELSE count,
                      bot_name, Tail(caps))

\* CapabilityRegistry.register_capability as a call that returns its value
RegisterCapabilityCall(bot_name, capability_id, description, parameters, permissions_required) ==
    /\ RegisterCapability(bot_name, capability_id, description, parameters,
                          permissions_required)
    /\ lastCall' = [op |-> "register_capability", bot_name |-> bot_name,
                    capability_id |-> capability_id,
                    description |-> description, parameters |-> parameters,
                    permissions_required |-> permissions_required,
                    value |-> db_register_capability_ok(capabilities, bot_name,
                                                        capability_id)]

\* register_capability run by the Registry of another process on the same
\* database file: the row and the audit entry are written, this process's
\* cache is not
RegisterElsewhere(bot_name, capability_id, description, parameters, permissions_required) ==
    LET reg == register_capability(Registry, bot_name, capability_id,
                                   description, parameters, permissions_required)
    IN  /\ capabilities' = reg.capabilities
        /\ audit_logs' = reg.audit_logs
        /\ lastCall' = [op |-> "register_elsewhere", bot_name |-> bot_name,
                        capability_id |-> capability_id]
        /\ UNCHANGED <<custom_commands, permissions, capabilities_cache,
                       bot_handlers, calls, exec, nCalls>>

\* CapabilityRegistry.get_capability as a call
GetCapability(bot_name, capability_id) ==
    /\ capabilities_cache' = get_capability_cache(capabilities_cache, capabilities,
                                                  bot_name, capability_id)
    /\ lastCall' = [op |-> "get_capability", bot_name |-> bot_name,
                    capability_id |-> capability_id,
                    value |-> get_capability(capabilities_cache, capabilities,
                                             bot_name, capability_id)]
    /\ UNCHANGED <<capabilities, custom_commands, audit_logs, permissions,
                   bot_handlers, calls, exec, nCalls>>

\* CapabilityRegistry.register_capabilities_from_api as a call
RegisterCapabilitiesFromApi(bot_name, caps) ==
    LET r == register_capabilities_from_api(Registry, 0, bot_name, caps)
    IN  /\ SetRegistry(r.reg)
        /\ lastCall' = [op |-> "register_capabilities_from_api",
                        bot_name |-> bot_name, capabilities |-> caps,
                        value |-> r.count]
        /\ UNCHANGED <<custom_commands, permissions, bot_handlers, calls, exec,
                       nCalls>>

\* CapabilityRegistry.validate_command_steps as a call
ValidateCommandSteps(steps) ==
    LET r == validate_command_steps(capabilities_cache, capabilities, steps, 0)
    IN  /\ capabilities_cache' = r.cache
        /\ lastCall' = [op |-> "validate_command_steps", steps |-> steps,
                        value |-> [ok |-> r.ok, error |-> r.error]]
        /\ UNCHANGED <<capabilities, custom_commands, audit_logs, permissions,
                       bot_handlers, calls, exec, nCalls>>

\* bot_loader.load_bot_config for a configuration file in the full format:
\* create the handler, register the capabilities, register the handler
LoadBotConfig(config) ==
    /\ SetRegistry(register_manual_capabilities(Registry, config.bot_name,
                                                config.capabilities))
    /\ bot_handlers' = (config.bot_name :> config.handler) @@ bot_handlers
    /\ UNCHANGED <<custom_commands, permissions, calls, exec, nCalls>>

\* Database.grant_permission
GrantPermission(user_id, permission_level, bot_name, capability_id) ==
    /\ permissions' = Append(permissions,
                             GrantRow(user_id, permission_level, bot_name,
                                      capability_id))
    /\ UNCHANGED <<capabilities, custom_commands, audit_logs,
                   capabilities_cache, bot_handlers, calls, exec, nCalls>>

\* Database.check_permission called on its own
CheckPermission(user_id, bot_name, capability_id, permission_level) ==
    /\ lastCall' = [op |-> "check_permission", user_id |-> user_id,
                    bot_name |-> bot_name, capability_id |-> capability_id,
                    permission_level |-> permission_level,
                    value |-> check_permission(permissions, user_id, bot_name,
                                               capability_id, permission_level)]
    /\ UNCHANGED <<capabilities, custom_commands, audit_logs, permissions,
                   capabilities_cache, bot_handlers, calls, exec, nCalls>>

\* Database.save_custom_command
SaveCustomCommand(command_name, description, steps, created_by) ==
    /\ custom_commands' = save_custom_command(custom_commands, command_name,
                                              description, steps, created_by)
    /\ UNCHANGED <<capabilities, audit_logs, permissions, capabilities_cache,
                   bot_handlers, calls, exec, nCalls>>

\* Database.save_custom_command as a call that returns its value
SaveCustomCommandCall(command_name, description, steps, created_by) ==
    /\ SaveCustomCommand(command_name, description, steps, created_by)
    /\ lastCall' = [op |-> "save_custom_command", command_name |-> command_name,
                    description |-> description, steps |-> steps,
                    created_by |-> created_by,
                    value |-> save_custom_command_ok(custom_commands,
                                                     command_name)]

\* a stored command is disabled in the database file: no function of the
\* program writes the enabled column, an operator does
DisableCustomCommand(command_name) ==
    /\ command_name \in DOMAIN custom_commands
    /\ custom_commands[command_name].enabled = 1
    /\ custom_commands' = [custom_commands EXCEPT ![command_name].enabled = 0]
    /\ UNCHANGED <<capabilities, audit_logs, permissions, capabilities_cache,
                   bot_handlers, calls, exec, nCalls>>

\* a capability is deregistered: its row is deleted from the database file by
\* an administrator; no function of the program deletes a capability, and the
\* cache of the running Registry is not told
DeregisterCapability(bot_name, capability_id) ==
    /\ <<bot_name, capability_id>> \in DOMAIN capabilities
    /\ capabilities' = [k \in DOMAIN capabilities \ {<<bot_name, capability_id>>}
                           |-> capabilities[k]]
    /\ UNCHANGED <<custom_commands, audit_logs, permissions, capabilities_cache,
                   bot_handlers, calls, exec, nCalls>>

\* main(): a new process over the same database file; the Registry and the
\* Executor are constructed again
Restart ==
    /\ capabilities_cache' = load_capabilities_from_db(capabilities)
    /\ bot_handlers' = <<>>
    /\ exec' = [e \in Users |-> Idle]
    /\ phase' = "bootstrap"
    /\ UNCHANGED <<capabilities, custom_commands, audit_logs, permissions,
                   calls, nCalls>>

\* main(): the bootstrap is over, bot.start serves the slash commands
StartBot ==
    /\ phase = "bootstrap"
    /\ phase' = "running"
    /\ UNCHANGED <<capabilities, custom_commands, audit_logs, permissions,
                   capabilities_cache, bot_handlers, calls, exec, nCalls>>

----------------------------------------------------------------------------
(* ai_new.py and discord_integration.py: the creation of a command          *)

\* what a generation path hands back to create_custom_command; validation is
\* the (ok, error) of the validate_command_steps call the path made, None when
\* it made none, and cache the registry's cache after the path has run
GenerationResult(success, command_name, description, steps, validation, cache) ==
    [success |-> success, command_name |-> command_name,
     description |-> description, steps |-> steps, validation |-> validation,
     cache |-> cache]

GenerationFailed(cache) ==
    GenerationResult(FALSE, NULL, NULL, <<>>, None, cache)

\* AICommandGenerator._generate_with_llm once the answer of the text
\* generation service has been parsed into command_def
generate_with_llm(cache, table, command_def) ==
    LET v == validate_command_steps(cache, table, command_def.steps, 0)
    IN  IF v.ok
        THEN GenerationResult(TRUE, command_def.command_name,
                              command_def.description, command_def.steps,
                              Some([ok |-> v.ok, error |-> v.error]), v.cache)
        ELSE GenerationResult(FALSE, NULL, NULL, <<>>,
                              Some([ok |-> v.ok, error |-> v.error]), v.cache)

\* AICommandGenerator._generate_fallback: one step for the first capability of
\* the cache whose capability_id or description occurs in the instruction;
\* matched is the key of that capability, None when the instruction names none
generate_fallback(cache, matched, command_name) ==
    IF matched = None THEN GenerationFailed(cache)
    ELSE GenerationResult(TRUE, command_name, "Generated from the instruction",
                          <<[bot_name |-> cache[matched[1]].bot_name,
                             capability_id |-> cache[matched[1]].capability_id,
                             parameters |-> <<>>]>>,
                          None, cache)

\* the body of the create_custom_command slash command once the generator has
\* answered with result: choose the name, save, and log the creation
CreateCustomCommand(user_id, command_name, result) ==
    LET final_command_name ==
            IF ~Falsy(command_name) THEN command_name ELSE result.command_name
        saving == result.success /\ ~Falsy(final_command_name)
        saved == saving /\ save_custom_command_ok(custom_commands,
                                                  final_command_name)
    IN  /\ capabilities_cache' = result.cache
        /\ custom_commands' =
              IF saving
              THEN save_custom_command(custom_commands, final_command_name,
                                       result.description, result.steps, user_id)
              ELSE custom_commands
        /\ audit_logs' =
              IF saved
              THEN log_action(audit_logs, "command_created", user_id,
                              [command_name |-> final_command_name,
                               description |-> result.description,
                               steps |-> result.steps], TRUE)
              ELSE audit_logs
        /\ lastCall' = [op |-> "create_custom_command", user_id |-> user_id,
                        command_name |-> final_command_name,
                        generated |-> result.success,
                        steps |-> result.steps,
                        validation |-> result.validation, value |-> saved]
        /\ UNCHANGED <<capabilities, permissions, bot_handlers, calls, exec,
                       nCalls>>

\* create_custom_command when the generator has a text generation service:
\* answer is what the service returned, None when it is not a JSON object
CreateWithLlm(user_id, command_name, answer) ==
    CreateCustomCommand(user_id, command_name,
        IF capabilities_cache = <<>> \/ answer = None
        THEN GenerationFailed(capabilities_cache)
        ELSE generate_with_llm(capabilities_cache, capabilities, answer[1]))

\* create_custom_command when the generator has none: the substring match
CreateWithFallback(user_id, command_name, matched, generated_name) ==
    CreateCustomCommand(user_id, command_name,
        IF capabilities_cache = <<>>
        THEN GenerationFailed(capabilities_cache)
        ELSE generate_fallback(capabilities_cache, matched, generated_name))

----------------------------------------------------------------------------
(* The executor specification: a bootstrap that registers capabilities,     *)
(* handlers, grants and commands, then execute_command and                 *)
(* execute_direct_step calls served one at a time.                         *)

NoCall == [op |-> "none"]

\* the state after Database(), CapabilityRegistry(database) and
\* CommandExecutor(database, registry) over a new database file
Init ==
    /\ capabilities = <<>>
    /\ custom_commands = <<>>
    /\ audit_logs = <<>>
    /\ permissions = <<>>
    /\ capabilities_cache = <<>>
    /\ bot_handlers = <<>>
    /\ calls = <<>>
    /\ exec = [e \in Users |-> Idle]
    /\ lastCall = NoCall
    /\ phase = "bootstrap"
    /\ nCalls = 0

NoParameters == <<>>

\* the capability descriptors of the bots' configuration files
CapabilityInputs ==
    {[bot_name |-> "weather", capability_id |-> "forecast",
      description |-> "Weather forecast", parameters |-> NoParameters,
      permissions_required |-> <<>>],
     [bot_name |-> "mail", capability_id |-> "send",
      description |-> "Send a mail", parameters |-> NoParameters,
      permissions_required |-> <<"admin", "execute">>]}

\* the handler bound to each bot: the classes create_handler builds, and for
\* "mail" also a plain function registered through register_bot_handler, the
\* only kind of handler that can raise
HandlerInputs ==
    {<<"weather", "mock">>, <<"weather", "http">>,
     <<"mail", "websocket">>, <<"mail", "function">>}

\* the files of config/bots: one bot each, with its handler type and capabilities
BotConfigs ==
    {[bot_name |-> p[1][1], handler |-> p[1][2],
      capabilities |-> <<[capability_id |-> p[2].capability_id,
                          description |-> p[2].description,
                          parameters |-> p[2].parameters,
                          permissions_required |-> p[2].permissions_required]>>] :
       p \in {q \in HandlerInputs \X CapabilityInputs : q[2].bot_name = q[1][1]}}

GrantInputs ==
    {GrantRow("alice", "read", "mail", "send"),
     GrantRow("alice", "execute", NULL, NULL)}

CommandNames == {"cmd"}

StepInputs ==
    {[bot_name |-> d.bot_name, capability_id |-> d.capability_id,
      parameters |-> NoParameters] : d \in CapabilityInputs}

StepLists == UNION {[1..n -> StepInputs] : n \in 0..MaxSteps}

Booting == phase = "bootstrap" /\ UNCHANGED <<phase, lastCall>>

\* main(): load_bots_from_directory loads one configuration file
BootLoadBotConfig == Booting /\ \E config \in BotConfigs : LoadBotConfig(config)

\* an administrator inserts a grant before the bot serves
BootGrantPermission ==
    /\ Booting
    /\ Len(permissions) < MaxGrants
    /\ \E g \in GrantInputs :
          GrantPermission(g.user_id, g.permission_level, g.bot_name,
                          g.capability_id)

\* a command is stored before the bot serves
BootSaveCustomCommand ==
    /\ Booting
    /\ \E name \in CommandNames, steps \in StepLists :
          SaveCustomCommand(name, "a command", steps, "alice")

\* the process is started again before it has served a call
BootRestart == phase = "bootstrap" /\ Restart /\ UNCHANGED lastCall

BootDone == StartBot /\ UNCHANGED lastCall

Serving == phase = "running" /\ UNCHANGED <<phase, lastCall>>

\* the /execute slash command: calls are served one at a time
ServeExecuteCommand ==
    /\ Serving
    /\ \A o \in Users : exec[o].pc # "running"
    /\ \E e \in Users, name \in CommandNames : ExecuteCommand(e, name)

ServeExecStep == Serving /\ \E e \in Users : ExecStep(e)

Next ==
    \/ BootLoadBotConfig
    \/ BootGrantPermission
    \/ BootSaveCustomCommand
    \/ BootRestart
    \/ BootDone
    \/ ServeExecuteCommand
    \/ ServeExecStep

Spec == Init /\ [][Next]_vars

----------------------------------------------------------------------------
(* The loading specification: commands are stored and disabled before the  *)
(* bot serves execute_command calls.                                        *)

BootDisableCommand ==
    Booting /\ \E name \in CommandNames : DisableCustomCommand(name)

LoadNext ==
    \/ BootLoadBotConfig
    \/ BootSaveCustomCommand
    \/ BootDisableCommand
    \/ BootDone
    \/ ServeExecuteCommand
    \/ ServeExecStep

SpecLoad == Init /\ [][LoadNext]_vars

----------------------------------------------------------------------------
(* The deregistration specification: capabilities are removed from the      *)
(* database file while the bot is set up and while it serves.               *)

\* the capability_registered entries of the audit log
Registrations ==
    {n \in DOMAIN audit_logs : audit_logs[n].action_type = "capability_registered"}

AdminDeregister ==
    /\ Cardinality(Registrations) <= MaxCaps
    /\ \E k \in DOMAIN capabilities : DeregisterCapability(k[1], k[2])
    /\ UNCHANGED <<phase, lastCall>>

VanishNext ==
    \/ BootLoadBotConfig
    \/ BootSaveCustomCommand
    \/ BootRestart
    \/ BootDone
    \/ AdminDeregister
    \/ ServeExecuteCommand
    \/ ServeExecStep

SpecVanish == Init /\ [][VanishNext]_vars

----------------------------------------------------------------------------
(* The registry specification: register, get, register-from-service-list   *)
(* and validate calls on one Registry, while another process registers      *)
(* capabilities in the same database file.                                  *)

\* names that hold the ':' of the cache key: <<"a", "b:c">> and <<"a:b", "c">>
\* are two capabilities
RegKeys == {<<"a", "b:c">>, <<"a:b", "c">>}

\* the service whose capability list is registered
RegBots == {"a"}

\* what a capability is registered with
RegDescriptions ==
    {[description |-> "first", parameters |-> <<>>,
      permissions_required |-> <<"admin">>],
     [description |-> "second", parameters |-> <<"x">>,
      permissions_required |-> <<>>]}

\* the descriptors of a service's capability list; one has no capability_id
RegDescriptors ==
    {[capability_id |-> c, description |-> "first", parameters |-> <<>>,
      permissions_required |-> <<"admin">>] : c \in {"c", "b:c", NULL}}

RegDescriptorLists == UNION {[1..n -> RegDescriptors] : n \in 0..MaxItems}

\* the steps handed to validate_command_steps; two are malformed
RegStepInputs ==
    {[bot_name |-> k[1], capability_id |-> k[2], parameters |-> NoParameters] :
        k \in RegKeys}
    \cup {[bot_name |-> "", capability_id |-> "c", parameters |-> NoParameters],
          [bot_name |-> "a", capability_id |-> NULL, parameters |-> NoParameters]}

RegStepLists == UNION {[1..n -> RegStepInputs] : n \in 0..MaxItems}

RegBounded == Cardinality(DOMAIN capabilities) < MaxCaps

RegRegister ==
    /\ \E k \in RegKeys, d \in RegDescriptions :
          /\ RegBounded \/ k \in DOMAIN capabilities
          /\ RegisterCapabilityCall(k[1], k[2], d.description, d.parameters,
                                    d.permissions_required)
    /\ UNCHANGED phase

RegElsewhere ==
    /\ RegBounded
    /\ \E k \in RegKeys, d \in RegDescriptions :
          RegisterElsewhere(k[1], k[2], d.description, d.parameters,
                            d.permissions_required)
    /\ UNCHANGED phase

RegGet == (\E k \in RegKeys : GetCapability(k[1], k[2])) /\ UNCHANGED phase

RegFromApi ==
    /\ RegBounded
    /\ \E b \in RegBots, caps \in RegDescriptorLists :
          RegisterCapabilitiesFromApi(b, caps)
    /\ UNCHANGED phase

RegValidate ==
    (\E steps \in RegStepLists : ValidateCommandSteps(steps)) /\ UNCHANGED phase

RegNext == RegRegister \/ RegElsewhere \/ RegGet \/ RegFromApi \/ RegValidate

SpecReg == Init /\ [][RegNext]_vars

----------------------------------------------------------------------------
(* The creation specification: bots are loaded, then create_custom_command  *)
(* and execute_command calls are served.                                    *)

\* what the text generation service may answer: nothing that parses, or a
\* command definition with any name (or none) and any list of steps
CreateStepLists == UNION {[1..n -> StepInputs] : n \in 0..MaxItems}

LlmAnswers ==
    {None} \cup
    {Some([command_name |-> n, description |-> "generated", steps |-> s]) :
        n \in CommandNames \cup {NULL}, s \in CreateStepLists}

\* the capability an instruction names, if any
Matches == {None} \cup {Some(k) : k \in DOMAIN capabilities_cache}

\* the command_name argument of the slash command is optional
NameArguments == CommandNames \cup {NULL}

\* the user who creates commands
Creators == {"alice"}

\* the bots loaded before commands are created: one handler each
CreateBotConfigs == {c \in BotConfigs : c.handler \in {"mock", "websocket"}}

CreateLoadBotConfig ==
    Booting /\ \E config \in CreateBotConfigs : LoadBotConfig(config)

\* the slash commands are served one at a time: execute_command does not
\* yield to the event loop
Creating ==
    /\ phase = "running"
    /\ \A o \in Users : exec[o].pc # "running"
    /\ UNCHANGED phase

ServeCreateWithLlm ==
    /\ Creating
    /\ \E user_id \in Creators, name \in NameArguments, answer \in LlmAnswers :
          CreateWithLlm(user_id, name, answer)

ServeCreateWithFallback ==
    /\ Creating
    /\ \E user_id \in Creators, name \in NameArguments, matched \in Matches,
          generated_name \in CommandNames :
          CreateWithFallback(user_id, name, matched, generated_name)


CreateNext ==
    \/ CreateLoadBotConfig
    \/ BootDone
    \/ ServeCreateWithLlm
    \/ ServeCreateWithFallback
    \/ ServeExecuteCommand
    \/ ServeExecStep

SpecCreate == Init /\ [][CreateNext]_vars

----------------------------------------------------------------------------
(* The serving specification: bots are loaded, then register_capability,    *)
(* create_custom_command, execute_command and execute_direct_step calls     *)
(* are served one at a time.                                                *)

\* the bots loaded at start: "weather" is bound to a plain function, which
\* returns or raises, "mail" to the mock handler
ServeBotConfigs ==
    {[bot_name |-> d.bot_name,
      handler |-> IF d.bot_name = "weather" THEN "function" ELSE "mock",
      capabilities |-> <<[capability_id |-> d.capability_id,
                          description |-> d.description,
                          parameters |-> d.parameters,
                          permissions_required |-> d.permissions_required]>>] :
       d \in CapabilityInputs}

ServeLoadBotConfig ==
    Booting /\ \E config \in ServeBotConfigs : LoadBotConfig(config)

\* the grant an administrator inserts before the bot serves: "alice" may
\* execute everything
ServeGrantPermission ==
    /\ Booting
    /\ Len(permissions) < MaxGrants
    /\ GrantPermission("alice", "execute", NULL, NULL)

\* no call is in its loop: a call is served from its start to its return
\* before the next one starts
Quiet == phase = "running" /\ \A o \in Users : exec[o].pc # "running"

\* register_capability called while the bot serves; no handler is bound
ServeRegisterCapability ==
    /\ Quiet
    /\ \E d \in CapabilityInputs :
          RegisterCapabilityCall(d.bot_name, d.capability_id, d.description,
                                 d.parameters, d.permissions_required)
    /\ UNCHANGED phase

ServeExecuteDirectStep ==
    /\ Quiet
    /\ \E user_id \in Users, bot_name \in Bots, capability_id \in CapIds :
          ExecuteDirectStep(user_id, bot_name, capability_id)
    /\ UNCHANGED phase

ServeNext ==
    \/ ServeLoadBotConfig
    \/ ServeGrantPermission
    \/ BootSaveCustomCommand
    \/ BootDone
    \/ ServeRegisterCapability
    \/ ServeCreateWithFallback
    \/ ServeExecuteCommand
    \/ ServeExecStep
    \/ ServeExecuteDirectStep

SpecServe == Init /\ [][ServeNext]_vars

----------------------------------------------------------------------------
(* The termination specification: bots are loaded, "alice" is granted        *)
(* execute on everything, commands are stored, then execute_command calls   *)
(* are served; a call that has started runs its loop to the return, since   *)
(* execute_command is synchronous and every handler call returns or raises.  *)

\* one iteration of the loop of caller e while the bot serves
ServeExecStepOf(e) == Serving /\ ExecStep(e)

LiveNext ==
    \/ BootLoadBotConfig
    \/ ServeGrantPermission
    \/ BootSaveCustomCommand
    \/ BootDone
    \/ ServeExecuteCommand
    \/ ServeExecStep

SpecLive ==
    Init /\ [][LiveNext]_vars /\ \A e \in Users : WF_vars(ServeExecStepOf(e))

----------------------------------------------------------------------------
(* The command store specification: save_custom_command calls by several    *)
(* users on a few names, and commands disabled by an operator.              *)

SaveNames == {"cmd", "report"}

\* each user saves with a description of their own
SaveDescription(user_id) ==
    IF user_id = "alice" THEN "a command" ELSE "another command"

\* the step lists saved: the empty one and those of full length
SaveStepLists == {<<>>} \cup [1..MaxItems -> StepInputs]

SaveCall ==
    /\ \E name \in SaveNames, steps \in SaveStepLists, user_id \in Users :
          SaveCustomCommandCall(name, SaveDescription(user_id), steps, user_id)
    /\ UNCHANGED phase

SaveDisable ==
    /\ \E name \in SaveNames : DisableCustomCommand(name)
    /\ UNCHANGED <<phase, lastCall>>

SaveNext == SaveCall \/ SaveDisable

SpecSave == Init /\ [][SaveNext]_vars

----------------------------------------------------------------------------
(* The concurrency specification: capabilities, handlers, a grant and       *)
(* commands are set up, then the two users' execute_command calls run with  *)
(* the iterations of their loops interleaved.                               *)

\* a capability is registered by another process before this one loads its
\* bots: the cache of this process does not hold it
ConcRegisterElsewhere ==
    /\ phase = "bootstrap"
    /\ DOMAIN capabilities = {}
    /\ \E d \in CapabilityInputs :
          RegisterElsewhere(d.bot_name, d.capability_id, d.description,
                            d.parameters, d.permissions_required)
    /\ UNCHANGED phase

\* the one grant of the table: "alice" may execute everything
ConcGrantPermission ==
    /\ Booting
    /\ permissions = <<>>
    /\ GrantPermission("alice", "execute", NULL, NULL)

\* commands are stored under two names
ConcSaveCustomCommand ==
    /\ Booting
    /\ \E name \in SaveNames, steps \in SaveStepLists :
          SaveCustomCommand(name, "a command", steps, "alice")

\* a user's call starts whatever the other user's call is doing; each user
\* makes one call
ConcExecuteCommand ==
    /\ Serving
    /\ \E e \in Users, name \in SaveNames :
          exec[e].pc = "idle" /\ StartCommand(e, name)

ConcNext ==
    \/ ServeLoadBotConfig
    \/ ConcRegisterElsewhere
    \/ ConcGrantPermission
    \/ ConcSaveCustomCommand
    \/ BootDone
    \/ ConcExecuteCommand
    \/ ServeExecStep

SpecConc == Init /\ [][ConcNext]_vars

----------------------------------------------------------------------------
(* The registration race specification: the two callers each make one       *)
(* register_capability call on one Registry, and the statements of the two  *)
(* calls interleave.                                                        *)

RaceKeys == {<<"weather", "forecast">>, <<"mail", "send">>}

RaceInsert ==
    /\ \E p \in Users, k \in RaceKeys, d \in RegDescriptions :
          RegisterInsert(p, k[1], k[2], d.description, d.parameters,
                         d.permissions_required)
    /\ UNCHANGED <<phase, lastCall>>

RaceUpdateCache ==
    (\E p \in Users : RegisterUpdateCache(p)) /\ UNCHANGED <<phase, lastCall>>

RaceLogAction ==
    (\E p \in Users : RegisterLogAction(p)) /\ UNCHANGED <<phase, lastCall>>

RaceNext == RaceInsert \/ RaceUpdateCache \/ RaceLogAction

SpecRace == Init /\ [][RaceNext]_vars

----------------------------------------------------------------------------
(* The direct step specification: bots are loaded, possibly over a store    *)
(* another process or an earlier run has written, "alice" is granted        *)
(* execute, then execute_direct_step calls are served.                      *)

DirectNext ==
    \/ ServeLoadBotConfig
    \/ ConcRegisterElsewhere
    \/ ConcGrantPermission
    \/ BootRestart
    \/ BootDone
    \/ ServeExecuteDirectStep

SpecDirect == Init /\ [][DirectNext]_vars

----------------------------------------------------------------------------
(* The resolver specification: grant_permission and check_permission calls  *)
(* on the permissions table alone.                                          *)

GrantBots == {"mail", NULL}
GrantCaps == {"send", NULL}

\* grant_permission with any scope, the capability-without-bot scope included
PermGrant ==
    /\ Len(permissions) < MaxGrants
    /\ \E u \in Users, l \in Levels, b \in GrantBots, c \in GrantCaps :
          GrantPermission(u, l, b, c)
    /\ lastCall' = [op |-> "grant_permission"]
    /\ UNCHANGED phase

PermCheck ==
    /\ \E u \in Users, b \in Bots, c \in CapIds, l \in Levels :
          CheckPermission(u, b, c, l)
    /\ UNCHANGED phase

PermNext == PermGrant \/ PermCheck

SpecPerm == Init /\ [][PermNext]_vars

----------------------------------------------------------------------------
(* Properties of the permission resolver *)

\* the grants of the table, by position, that fall in each tier for a query
CapabilityScoped(u, b, c) ==
    {n \in DOMAIN permissions : /\ permissions[n].user_id = u
                                /\ permissions[n].bot_name = b
                                /\ permissions[n].capability_id = c}
BotWide(u, b) ==
    {n \in DOMAIN permissions : /\ permissions[n].user_id = u
                                /\ permissions[n].bot_name = b
                                /\ permissions[n].capability_id = NULL}
Global(u) ==
    {n \in DOMAIN permissions : /\ permissions[n].user_id = u
                                /\ permissions[n].bot_name = NULL}

Earliest(S) == CHOOSE n \in S : \A m \in S : n <= m

\* read < execute < admin, as the pairs <<held, required>> that authorize
AtLeast ==
    {<<"read", "read">>,
     <<"execute", "read">>, <<"execute", "execute">>,
     <<"admin", "read">>, <<"admin", "execute">>, <<"admin", "admin">>}

Authorizes(S, level) ==
    <<permissions[Earliest(S)].permission_level, level>> \in AtLeast

IsCheck == lastCall.op = "check_permission"

\* C6: the first tier (capability-scoped, bot-wide, global) that has a matching
\* grant decides check_permission, whatever its level; wider tiers are not
\* consulted
C6_FirstMatchingTierWins ==
    IsCheck =>
        LET cap == CapabilityScoped(lastCall.user_id, lastCall.bot_name,
                                    lastCall.capability_id)
            bot == BotWide(lastCall.user_id, lastCall.bot_name)
            glob == Global(lastCall.user_id)
            level == lastCall.permission_level
        IN  /\ cap # {} => lastCall.value = Authorizes(cap, level)
            /\ cap = {} /\ bot # {} => lastCall.value = Authorizes(bot, level)
            /\ cap = {} /\ bot = {} /\ glob # {} =>
                  lastCall.value = Authorizes(glob, level)

\* a capability-scoped read grant shadows a bot-wide admin grant: execute is refused
C6_Witness ==
    /\ IsCheck
    /\ lastCall.permission_level = "execute"
    /\ lastCall.value = FALSE
    /\ \E n \in CapabilityScoped(lastCall.user_id, lastCall.bot_name,
                                 lastCall.capability_id) :
          permissions[n].permission_level = "read"
    /\ \E n \in BotWide(lastCall.user_id, lastCall.bot_name) :
          permissions[n].permission_level = "admin"

\* position of a level in the order read < execute < admin
LevelOrder == <<"read", "execute", "admin">>
Position(level) == CHOOSE n \in DOMAIN LevelOrder : LevelOrder[n] = level

\* C8: with a single grant in the table that matches the query, check_permission
\* grants exactly when the grant's level is greater than or equal to the
\* required level in the order read < execute < admin
C8_LevelOrder ==
    (/\ IsCheck
     /\ Len(permissions) = 1
     /\ permissions[1].user_id = lastCall.user_id
     /\ permissions[1].bot_name \in {lastCall.bot_name, NULL}
     /\ permissions[1].capability_id \in {lastCall.capability_id, NULL})
    => (lastCall.value <=>
          Position(permissions[1].permission_level)
             >= Position(lastCall.permission_level))

\* an execute grant asked for execute: the boundary of the order
C8_Witness ==
    /\ IsCheck
    /\ Len(permissions) = 1
    /\ permissions[1].user_id = lastCall.user_id
    /\ permissions[1].bot_name = lastCall.bot_name
    /\ permissions[1].capability_id = lastCall.capability_id
    /\ permissions[1].permission_level = "execute"
    /\ lastCall.permission_level = "execute"
    /\ lastCall.value = TRUE

----------------------------------------------------------------------------
(* Properties of execute_command *)

Finished(e) == exec[e].pc = "done"

\* a finished call that got as far as loading its command
Reported(e) == Finished(e) /\ "steps_executed" \in DOMAIN exec[e].result

\* the handler invocations of the call caller e is in (or has just finished)
CallsOf(e) ==
    {n \in DOMAIN calls : calls[n].caller = e /\ calls[n].id = exec[e].id}

\* the step list stored under the name caller e executes
StoredSteps(e) == StepsLoads(custom_commands[exec[e].command_name].steps)

AllSuccessful(results) == \A n \in DOMAIN results : results[n].success

\* C1: once the outcome of step n is unsuccessful the call is over: it has
\* failed, reports the outcomes of steps 1..n only, steps_executed = n,
\* total_steps = the number of steps, and no handler was invoked for a later step
C1_FailFast ==
    \A e \in Users : \A n \in DOMAIN exec[e].results :
        ~exec[e].results[n].success =>
            /\ Finished(e)
            /\ exec[e].result.success = FALSE
            /\ Len(exec[e].result.results) = n
            /\ \A k \in 1..n : exec[e].result.results[k].step = k
            /\ exec[e].result.steps_executed = n
            /\ exec[e].result.total_steps = Len(exec[e].steps)
            /\ \A c \in CallsOf(e) : calls[c].step <= n

\* a 3-step command whose step 2 failed: step 1 ran, step 3 was never called
C1_Witness ==
    \E e \in Users :
        /\ Finished(e)
        /\ Len(exec[e].steps) = 3
        /\ Len(exec[e].results) = 2
        /\ exec[e].results[1].success
        /\ ~exec[e].results[2].success
        /\ exec[e].result.steps_executed = 2
        /\ exec[e].result.total_steps = 3
        /\ \E c \in CallsOf(e) : calls[c].step = 1
        /\ \A c \in CallsOf(e) : calls[c].step # 3

\* C2: a call that fails at the capability resolution of step n reports
\* steps_executed = n - 1, one that fails at the dispatch of step n reports
\* steps_executed = n; both report total_steps = the length of the stored list
C2_StepsExecuted ==
    \A e \in Users :
        (Reported(e) /\ ~exec[e].result.success) =>
            LET r == exec[e].result
            IN  /\ r.error.text = "Capability not found" =>
                     /\ r.steps_executed = r.error.step - 1
                     /\ r.total_steps = Len(StoredSteps(e))
                /\ r.error.text = "failed" =>
                     /\ r.steps_executed = r.error.step
                     /\ r.total_steps = Len(StoredSteps(e))

\* step 2 of a longer command does not resolve after step 1 was dispatched
C2_Witness ==
    \E e \in Users :
        /\ Reported(e)
        /\ ~exec[e].result.success
        /\ exec[e].result.error.text = "Capability not found"
        /\ exec[e].result.error.step = 2
        /\ exec[e].result.steps_executed = 1
        /\ exec[e].result.total_steps = 3
        /\ \E c \in CallsOf(e) : calls[c].step = 1

\* the handler invocations of execute_command calls in which the handler
\* reported a failure without raising
ReportedFailures ==
    {n \in DOMAIN calls : /\ calls[n].id > 0
                          /\ calls[n].id = exec[calls[n].caller].id
                          /\ ~calls[n].outcome.raised
                          /\ calls[n].outcome.value.status = "error"}

\* C3: when a handler reports a failure (HTTP error, WebSocket "not
\* implemented"), the step's outcome is recorded with success = false and the
\* error text, no later step is dispatched and the call fails
C3_HandlerFailureStops ==
    \A n \in ReportedFailures :
        LET e == calls[n].caller
            k == calls[n].step
        IN  /\ exec[e].results[k].success = FALSE
            /\ exec[e].results[k].error = calls[n].outcome.value.error
            /\ \A c \in CallsOf(e) : calls[c].step <= k
            /\ Finished(e) => exec[e].result.success = FALSE

CommandExecuted(log) ==
    {n \in DOMAIN log : log[n].action_type = "command_executed"}

\* the callers whose execute_command call returns in this step
Returning == {e \in Users : exec'[e] # exec[e] /\ exec'[e].pc = "done"}

\* C4: a step in which an execute_command call returns appends exactly one
\* command_executed entry whose success flag is the result's; no other step
\* writes a command_executed entry
C4_OneAuditEntry ==
    [][/\ Cardinality(CommandExecuted(audit_logs')) =
            Cardinality(CommandExecuted(audit_logs)) + Cardinality(Returning)
       /\ \A e \in Returning :
            /\ Len(audit_logs') = Len(audit_logs) + 1
            /\ SubSeq(audit_logs', 1, Len(audit_logs)) = audit_logs
            /\ audit_logs'[Len(audit_logs')].action_type = "command_executed"
            /\ audit_logs'[Len(audit_logs')].user_id = e
            /\ audit_logs'[Len(audit_logs')].success = exec'[e].result.success]_vars

\* calls have returned on a failure and on a full success, one entry each
C4_Witness ==
    \E e \in Users :
        /\ Finished(e)
        /\ exec[e].result.success
        /\ exec[e].result.steps_executed = 2
        /\ Cardinality(CommandExecuted(audit_logs)) = nCalls
        /\ audit_logs[Len(audit_logs)].action_type = "command_executed"
        /\ audit_logs[Len(audit_logs)].success

\* the handler invocations of execute_command calls in which the handler raised
RaisedCalls ==
    {n \in DOMAIN calls : /\ calls[n].id > 0
                          /\ calls[n].id = exec[calls[n].caller].id
                          /\ calls[n].outcome.raised}

\* C5: an exception raised by the handler of step n becomes the failed outcome
\* of step n; the call returns success = false with steps_executed = n and the
\* earlier successful outcomes, and a failed audit entry is written
C5_ExceptionContained ==
    \A n \in RaisedCalls :
        LET e == calls[n].caller
            k == calls[n].step
            r == exec[e].result
        IN  /\ Finished(e)
            /\ r.success = FALSE
            /\ r.steps_executed = k
            /\ Len(r.results) = k
            /\ r.results[k].success = FALSE
            /\ r.results[k].error = calls[n].outcome.error
            /\ AllSuccessful(SubSeq(r.results, 1, k - 1))
            /\ exec[e].id = nCalls =>
                 /\ audit_logs # <<>>
                 /\ audit_logs[Len(audit_logs)].action_type = "command_executed"
                 /\ audit_logs[Len(audit_logs)].user_id = e
                 /\ audit_logs[Len(audit_logs)].success = FALSE

\* the handler of step 2 raised after step 1 had succeeded
C5_Witness ==
    \E n \in RaisedCalls :
        /\ calls[n].step = 2
        /\ Finished(calls[n].caller)
        /\ exec[calls[n].caller].result.results[1].success
        /\ exec[calls[n].caller].result.steps_executed = 2

----------------------------------------------------------------------------
(* Properties of the permission gate of a step *)

\* the permissions_required a capability was declared with in its configuration
DeclaredPermissions(bot_name, capability_id) ==
    (CHOOSE d \in CapabilityInputs :
        d.bot_name = bot_name /\ d.capability_id = capability_id).permissions_required

\* no grant of the table matches the user in any of the three tiers
NoGrant(u, b, c) ==
    CapabilityScoped(u, b, c) = {} /\ BotWide(u, b) = {} /\ Global(u) = {}

Gated(step) == DeclaredPermissions(step.bot_name, step.capability_id) # <<>>

\* C7: without a matching grant in any tier check_permission returns false for
\* every level, and a step whose capability declares permissions is then never
\* dispatched for that user: the call fails before it counts the step
C7_NoDefaultAllow ==
    /\ \A u \in Users, b \in Bots, c \in CapIds, l \in Levels :
          NoGrant(u, b, c) => ~check_permission(permissions, u, b, c, l)
    /\ \A e \in Users : \A n \in DOMAIN exec[e].steps :
          (Gated(exec[e].steps[n])
             /\ NoGrant(e, exec[e].steps[n].bot_name,
                        exec[e].steps[n].capability_id)) =>
             /\ Len(exec[e].results) < n
             /\ \A c \in CallsOf(e) : calls[c].step < n
             /\ Finished(e) =>
                  /\ exec[e].result.success = FALSE
                  /\ exec[e].result.steps_executed < n

\* bob holds no grant and is denied the step that requires a permission
C7_Witness ==
    /\ Finished("bob")
    /\ permissions # <<>>
    /\ exec["bob"].steps # <<>>
    /\ Gated(exec["bob"].steps[1])
    /\ NoGrant("bob", exec["bob"].steps[1].bot_name,
               exec["bob"].steps[1].capability_id)
    /\ exec["bob"].result.success = FALSE
    /\ exec["bob"].result.error.text = "Permission denied"
    /\ exec["bob"].result.steps_executed = 0
    /\ calls = <<>>

\* some level of the declared set is granted to user u for the step
SomeLevelGranted(u, step) ==
    LET required == DeclaredPermissions(step.bot_name, step.capability_id)
    IN  \E k \in DOMAIN required :
            check_permission(permissions, u, step.bot_name, step.capability_id,
                             required[k])

\* C9: a step whose capability declares permissions is dispatched only when
\* check_permission holds for at least one declared level, and is denied only
\* when it holds for none
C9_GateIsOr ==
    \A e \in Users :
        /\ \A n \in DOMAIN exec[e].results :
              Gated(exec[e].steps[n]) => SomeLevelGranted(e, exec[e].steps[n])
        /\ (/\ Reported(e)
            /\ ~exec[e].result.success
            /\ exec[e].result.error.text = "Permission denied"
            /\ Gated(exec[e].steps[exec[e].result.error.step]))
           => ~SomeLevelGranted(e, exec[e].steps[exec[e].result.error.step])

\* a finished call that failed before the dispatch of its step n: every
\* recorded outcome is successful and n is the next step
StoppedBefore(e, n) ==
    /\ Reported(e)
    /\ ~exec[e].result.success
    /\ AllSuccessful(exec[e].result.results)
    /\ n = Len(exec[e].result.results) + 1

\* C10: a call stopped by the permission gate at step n (its capability
\* resolved) did not invoke the handler of step n, reports success = false,
\* steps_executed = n - 1, the outcomes of steps 1..n-1, and the "Permission
\* denied" message rather than the not-found or the dispatch-failure one
C10_DenialStops ==
    \A e \in Users : \A n \in DOMAIN exec[e].steps :
        (/\ StoppedBefore(e, n)
         /\ CacheKey(exec[e].steps[n].bot_name, exec[e].steps[n].capability_id)
               \in DOMAIN capabilities_cache)
        => /\ exec[e].result.error.text = "Permission denied"
           /\ exec[e].result.error.step = n
           /\ exec[e].result.steps_executed = n - 1
           /\ exec[e].result.total_steps = Len(exec[e].steps)
           /\ \A k \in 1..(n - 1) : exec[e].result.results[k].step = k
           /\ \A c \in CallsOf(e) : calls[c].step < n

\* step 2 is denied after step 1 was dispatched
C10_Witness ==
    \E e \in Users :
        /\ StoppedBefore(e, 2)
        /\ exec[e].result.error.text = "Permission denied"
        /\ exec[e].result.steps_executed = 1
        /\ exec[e].result.results[1].success
        /\ \E c \in CallsOf(e) : calls[c].step = 1
        /\ \A c \in CallsOf(e) : calls[c].step # 2

----------------------------------------------------------------------------
(* Properties of the terminal results of execute_command *)

\* the command caller e executes is stored and enabled
Loaded(e) == get_custom_command(custom_commands, exec[e].command_name) # None

\* the handler was invoked for step n of the call caller e is in
Dispatched(e, n) == \E c \in CallsOf(e) : calls[c].step = n

\* an audit entry of a full success of caller e with these outcomes
AuditedSuccess(e, results) ==
    \E k \in DOMAIN audit_logs :
        /\ audit_logs[k].action_type = "command_executed"
        /\ audit_logs[k].user_id = e
        /\ audit_logs[k].success
        /\ audit_logs[k].details.command_name = exec[e].command_name
        /\ audit_logs[k].details.steps_executed = Len(results)
        /\ audit_logs[k].details.results = results

\* C11: a finished call reports success = true exactly when its command was
\* loaded and every step of it was dispatched with a successful outcome; the
\* result then has steps_executed = total_steps = the number of stored steps,
\* one successful outcome per step in step order, and a successful audit entry
C11_FullSuccess ==
    \A e \in Users :
        Finished(e) =>
            /\ exec[e].result.success <=>
                  /\ Loaded(e)
                  /\ Len(exec[e].results) = Len(StoredSteps(e))
                  /\ AllSuccessful(exec[e].results)
                  /\ \A n \in DOMAIN StoredSteps(e) : Dispatched(e, n)
            /\ exec[e].result.success =>
                  LET r == exec[e].result
                      steps == StoredSteps(e)
                  IN  /\ r.steps_executed = Len(steps)
                      /\ r.total_steps = Len(steps)
                      /\ Len(r.results) = Len(steps)
                      /\ \A n \in DOMAIN steps :
                            /\ r.results[n].step = n
                            /\ r.results[n].bot_name = steps[n].bot_name
                            /\ r.results[n].capability_id = steps[n].capability_id
                            /\ r.results[n].success
                      /\ AuditedSuccess(e, r.results)

\* a command of three steps ran to the end
C11_Witness ==
    \E e \in Users :
        /\ Finished(e)
        /\ exec[e].result.success
        /\ exec[e].result.total_steps = 3
        /\ exec[e].result.steps_executed = 3
        /\ \A n \in 1..3 : Dispatched(e, n)
        /\ AuditedSuccess(e, exec[e].result.results)

\* caller e starts an execute_command call in this step
Starting(e) == exec'[e].id > exec[e].id

\* C12: an execute_command call for a name that was never stored returns at
\* once with success = false and an error naming the command, invokes no
\* handler, and appends exactly one command_executed entry with success = false
C12_UnknownCommand ==
    [][\A e \in Users :
          (Starting(e) /\ exec'[e].command_name \notin DOMAIN custom_commands) =>
             /\ exec'[e].pc = "done"
             /\ exec'[e].result.success = FALSE
             /\ exec'[e].result.error.text = "Command not found"
             /\ exec'[e].result.error.command_name = exec'[e].command_name
             /\ calls' = calls
             /\ Len(audit_logs') = Len(audit_logs) + 1
             /\ SubSeq(audit_logs', 1, Len(audit_logs)) = audit_logs
             /\ audit_logs'[Len(audit_logs')].action_type = "command_executed"
             /\ audit_logs'[Len(audit_logs')].user_id = e
             /\ audit_logs'[Len(audit_logs')].success = FALSE
             /\ audit_logs'[Len(audit_logs')].details.command_name =
                   exec'[e].command_name]_vars

\* a call for a name that is not stored has returned, with handlers bound
C12_Witness ==
    \E e \in Users :
        /\ Finished(e)
        /\ exec[e].command_name \notin DOMAIN custom_commands
        /\ exec[e].result.success = FALSE
        /\ exec[e].result.error.command_name = "cmd"
        /\ bot_handlers # <<>>
        /\ calls = <<>>
        /\ Cardinality(CommandExecuted(audit_logs)) = 1
        /\ audit_logs[Len(audit_logs)].success = FALSE

\* C13: a call for a command that is absent from the store, or stored but
\* disabled, fails at once with a result that reports steps_executed = 0, and
\* none of the command's steps is resolved, checked or dispatched
C13_AbsentOrDisabled ==
    \A e \in Users :
        (Finished(e) /\ ~Loaded(e)) =>
            /\ exec[e].result.success = FALSE
            /\ exec[e].results = <<>>
            /\ CallsOf(e) = {}
            /\ "steps_executed" \in DOMAIN exec[e].result
            /\ exec[e].result.steps_executed = 0

----------------------------------------------------------------------------
(* Properties of the registry *)

IsRegister == lastCall'.op = "register_capability"

\* what get_capability would return before and after the step
Get(bot_name, capability_id) ==
    get_capability(capabilities_cache, capabilities, bot_name, capability_id)
GetAfter(bot_name, capability_id) ==
    get_capability(capabilities_cache', capabilities', bot_name, capability_id)

\* the keys get_capability may be asked for
AllKeys == RegKeys \cup DOMAIN capabilities \cup DOMAIN capabilities'

\* C14: a register_capability call for a key without a row returns true and get
\* then returns the capability as registered; a call for a key that has a row
\* returns false whatever it carries, changes no row, and get returns for
\* every key what it returned before
C14_DuplicateRejected ==
    [][IsRegister =>
         LET b == lastCall'.bot_name
             c == lastCall'.capability_id
         IN  IF <<b, c>> \notin DOMAIN capabilities
             THEN /\ lastCall'.value = TRUE
                  /\ GetAfter(b, c) # None
                  /\ GetAfter(b, c)[1].bot_name = b
                  /\ GetAfter(b, c)[1].capability_id = c
                  /\ GetAfter(b, c)[1].description = lastCall'.description
                  /\ GetAfter(b, c)[1].parameters = lastCall'.parameters
                  /\ GetAfter(b, c)[1].permissions_required =
                        lastCall'.permissions_required
             ELSE /\ lastCall'.value = FALSE
                  /\ capabilities' = capabilities
                  /\ audit_logs' = audit_logs
                  /\ \A k \in AllKeys : GetAfter(k[1], k[2]) = Get(k[1], k[2])]_vars

\* the second register of a key, with another description, was refused and
\* get returns the capability of the first
C14_Witness ==
    /\ lastCall.op = "register_capability"
    /\ lastCall.value = FALSE
    /\ lastCall.description = "second"
    /\ LET cap == get_capability(capabilities_cache, capabilities,
                                 lastCall.bot_name, lastCall.capability_id)
       IN  /\ cap # None
           /\ cap[1].bot_name = lastCall.bot_name
           /\ cap[1].description = "first"
           /\ cap[1].parameters = <<>>
           /\ cap[1].permissions_required = <<"admin">>

\* C15: once a capability is registered, no operation changes the description,
\* parameters or permissions_required that get returns for its key
C15_NeverMutated ==
    [][\A k \in DOMAIN capabilities :
          /\ Get(k[1], k[2]) # None
          /\ GetAfter(k[1], k[2]) # None
          /\ GetAfter(k[1], k[2])[1].description = Get(k[1], k[2])[1].description
          /\ GetAfter(k[1], k[2])[1].parameters = Get(k[1], k[2])[1].parameters
          /\ GetAfter(k[1], k[2])[1].permissions_required =
                Get(k[1], k[2])[1].permissions_required]_vars

IsGet == lastCall'.op = "get_capability"

\* C16: get_capability answers a key of the cache from the cache, the store
\* not being consulted; a key missing from the cache and present in the store
\* from the store, the row being put in the cache; a key missing from both
\* with None, the cache being left as it was; it never writes the store
C16_ReadThrough ==
    [][IsGet =>
         LET b == lastCall'.bot_name
             c == lastCall'.capability_id
             key == CacheKey(b, c)
         IN  /\ capabilities' = capabilities
             /\ audit_logs' = audit_logs
             /\ key \in DOMAIN capabilities_cache =>
                   /\ lastCall'.value = Some(capabilities_cache[key])
                   /\ capabilities_cache' = capabilities_cache
             /\ (key \notin DOMAIN capabilities_cache
                    /\ <<b, c>> \in DOMAIN capabilities) =>
                   /\ lastCall'.value = Some(capabilities[<<b, c>>])
                   /\ DOMAIN capabilities_cache' =
                         DOMAIN capabilities_cache \cup {key}
                   /\ capabilities_cache'[key] = capabilities[<<b, c>>]
                   /\ \A o \in DOMAIN capabilities_cache :
                         capabilities_cache'[o] = capabilities_cache[o]
             /\ (key \notin DOMAIN capabilities_cache
                    /\ <<b, c>> \notin DOMAIN capabilities) =>
                   /\ lastCall'.value = None
                   /\ capabilities_cache' = capabilities_cache]_vars

\* a capability registered by another process was returned by get and is in
\* the cache now, next to nothing this process registered
C16_Witness ==
    /\ lastCall.op = "get_capability"
    /\ lastCall.value # None
    /\ lastCall.value[1].bot_name = lastCall.bot_name
    /\ lastCall.value[1].capability_id = lastCall.capability_id
    /\ lastCall.value[1] = capabilities[<<lastCall.bot_name, lastCall.capability_id>>]
    /\ DOMAIN capabilities_cache =
          {CacheKey(lastCall.bot_name, lastCall.capability_id)}

\* every step of the list is well formed and names a row of the store
AllRegistered(steps) ==
    \A n \in DOMAIN steps :
        /\ ~Falsy(steps[n].bot_name)
        /\ ~Falsy(steps[n].capability_id)
        /\ <<steps[n].bot_name, steps[n].capability_id>> \in DOMAIN capabilities

\* C17: a capability whose register has returned true, in this process or in
\* another, is resolved by every lookup that follows, without a restart: get
\* resolves every key of the store, and the get and validate calls made
\* resolved the registered keys they were asked for
C17_ReadAfterWrite ==
    /\ \A k \in DOMAIN capabilities :
          get_capability(capabilities_cache, capabilities, k[1], k[2]) # None
    /\ (lastCall.op = "get_capability"
          /\ <<lastCall.bot_name, lastCall.capability_id>> \in DOMAIN capabilities)
        => lastCall.value # None
    /\ (lastCall.op = "validate_command_steps" /\ AllRegistered(lastCall.steps))
        => lastCall.value.ok

\* one capability registered here and one registered by another process, which
\* a validate call has resolved from the store
C17_Witness ==
    /\ lastCall.op = "validate_command_steps"
    /\ lastCall.steps # <<>>
    /\ AllRegistered(lastCall.steps)
    /\ lastCall.value.ok
    /\ \E k \in DOMAIN capabilities :
          /\ CacheKey(k[1], k[2]) \in DOMAIN capabilities_cache
          /\ capabilities_cache[CacheKey(k[1], k[2])] = capabilities[k]
          /\ \E n \in DOMAIN lastCall.steps :
                <<lastCall.steps[n].bot_name, lastCall.steps[n].capability_id>> = k
    /\ \E k \in DOMAIN capabilities :
          /\ CacheKey(k[1], k[2]) \in DOMAIN capabilities_cache
          /\ capabilities_cache[CacheKey(k[1], k[2])] # capabilities[k]

IsFromApi == lastCall'.op = "register_capabilities_from_api"

\* the keys of the descriptors of a list that have a capability_id
DescribedKeys(bot_name, caps) ==
    {<<bot_name, caps[n].capability_id>> :
        n \in {m \in DOMAIN caps : ~Falsy(caps[m].capability_id)}}

\* C18: register_capabilities_from_api returns the number of capabilities it
\* registered: descriptors without a capability_id and descriptors whose key
\* has a row already (from before, or from earlier in the list) are not
\* counted, and every descriptor that has a capability_id is registered when
\* the call returns, whatever precedes it in the list
C18_CountsRegistered ==
    [][IsFromApi =>
         LET keys == DescribedKeys(lastCall'.bot_name, lastCall'.capabilities)
         IN  /\ DOMAIN capabilities' = DOMAIN capabilities \cup keys
             /\ lastCall'.value = Cardinality(keys \ DOMAIN capabilities)
             /\ lastCall'.value =
                   Cardinality(DOMAIN capabilities') - Cardinality(DOMAIN capabilities)
             /\ Len(audit_logs') = Len(audit_logs) + lastCall'.value
             /\ \A k \in DOMAIN capabilities : capabilities'[k] = capabilities[k]
             /\ \A k \in keys :
                   get_capability(capabilities_cache', capabilities', k[1], k[2])
                      # None]_vars

\* a list of two descriptors whose first key was registered before: one is
\* counted, both keys are registered
C18_Witness ==
    /\ lastCall.op = "register_capabilities_from_api"
    /\ Len(lastCall.capabilities) = 2
    /\ Cardinality(DescribedKeys(lastCall.bot_name, lastCall.capabilities)) = 2
    /\ DescribedKeys(lastCall.bot_name, lastCall.capabilities)
          \subseteq DOMAIN capabilities
    /\ lastCall.value = 1
    /\ audit_logs[Len(audit_logs)].details.capability_id =
          lastCall.capabilities[2].capability_id

IsValidate == lastCall'.op = "validate_command_steps"

StepKey(step) == CacheKey(step.bot_name, step.capability_id)

Malformed(step) == Falsy(step.bot_name) \/ Falsy(step.capability_id)

\* step n of the list resolves through get when it is examined after the
\* steps before it: from the cache, from the store, or from the cache entry a
\* step before it has fetched
Resolves(steps, n) ==
    \/ StepKey(steps[n]) \in DOMAIN capabilities_cache
    \/ <<steps[n].bot_name, steps[n].capability_id>> \in DOMAIN capabilities
    \/ \E m \in 1..(n - 1) :
          /\ StepKey(steps[m]) = StepKey(steps[n])
          /\ <<steps[m].bot_name, steps[m].capability_id>> \in DOMAIN capabilities

Violating(steps) ==
    {n \in DOMAIN steps : Malformed(steps[n]) \/ ~Resolves(steps, n)}

\* C19: for a list of at least one step validate_command_steps returns
\* (true, none) exactly when every step has a bot_name and a capability_id and
\* resolves through get; otherwise it returns false with an error that names
\* the position of the first violating step, and it has looked up no step
\* after that one
C19_ValidateSteps ==
    [][(IsValidate /\ lastCall'.steps # <<>>) =>
         LET steps == lastCall'.steps
             bad == Violating(steps)
             first == Earliest(bad)
             examined == IF bad = {} THEN DOMAIN steps ELSE 1..(first - 1)
         IN  /\ lastCall'.value.ok <=> bad = {}
             /\ lastCall'.value.ok => lastCall'.value.error = None
             /\ ~lastCall'.value.ok =>
                   /\ lastCall'.value.error # None
                   /\ lastCall'.value.error[1].step = first
                   /\ lastCall'.value.error[1].text =
                         IF Malformed(steps[first])
                         THEN "missing bot_name or capability_id"
                         ELSE "Capability not found"
             /\ capabilities' = capabilities
             /\ DOMAIN capabilities_cache' =
                   DOMAIN capabilities_cache
                   \cup {StepKey(steps[m]) : m \in examined}]_vars

\* the first step is malformed; the second, a capability of the store that
\* the cache does not hold, was not fetched
C19_Witness ==
    /\ lastCall.op = "validate_command_steps"
    /\ Len(lastCall.steps) = 2
    /\ ~lastCall.value.ok
    /\ lastCall.value.error[1].step = 1
    /\ <<lastCall.steps[2].bot_name, lastCall.steps[2].capability_id>>
          \in DOMAIN capabilities
    /\ StepKey(lastCall.steps[2]) \notin DOMAIN capabilities_cache

\* C20: validate_command_steps rejects the empty step list: it returns
\* ok = false with an error message
C20_EmptyRejected ==
    (lastCall.op = "validate_command_steps" /\ lastCall.steps = <<>>) =>
        /\ lastCall.value.ok = FALSE
        /\ lastCall.value.error # None

----------------------------------------------------------------------------
(* Properties of the creation of commands *)

IsCreate == lastCall.op = "create_custom_command"

\* every step of the list resolves through get_capability
AllResolve(steps) ==
    \A n \in DOMAIN steps :
        get_capability(capabilities_cache, capabilities, steps[n].bot_name,
                       steps[n].capability_id) # None

\* C21: every generation path calls validate_command_steps on the steps it
\* hands to save_custom_command, so a command is persisted only after its step
\* list has passed validate_command_steps, and every step of it resolves in the
\* registry when the command is created
C21_ValidatedBeforeSave ==
    /\ (IsCreate /\ lastCall.generated) =>
          /\ lastCall.validation # None
          /\ lastCall.validation[1].ok
    /\ (IsCreate /\ lastCall.value) =>
          /\ lastCall.validation # None
          /\ lastCall.validation[1].ok
          /\ AllResolve(lastCall.steps)
          /\ lastCall.command_name \in DOMAIN custom_commands

\* C22: no stored command has an empty step list, so no execute_command call
\* reports success with total_steps = 0
C22_NonEmptySteps ==
    /\ \A n \in DOMAIN custom_commands :
          StepsLoads(custom_commands[n].steps) # <<>>
    /\ \A e \in Users :
          (Finished(e) /\ exec[e].result.success) =>
              exec[e].result.total_steps > 0

----------------------------------------------------------------------------
(* Properties of execute_command when capabilities are deregistered *)

\* the step the loop of caller e is about to examine
NextStep(e) == exec[e].steps[exec[e].i + 1]

\* caller e runs one iteration of the loop in this step
Iterating(e) == exec[e].pc = "running" /\ exec'[e] # exec[e]

\* C23: when the loop reaches a step whose capability has no row in the store
\* any more, whether or not the registry had cached it, the call stops there
\* with the capability-not-found failure, steps_executed = the number of steps
\* before it, and no handler is invoked
C23_VanishedDetected ==
    [][\A e \in Users :
          (Iterating(e)
             /\ <<NextStep(e).bot_name, NextStep(e).capability_id>>
                   \notin DOMAIN capabilities) =>
             /\ exec'[e].pc = "done"
             /\ exec'[e].result.success = FALSE
             /\ exec'[e].result.error.text = "Capability not found"
             /\ exec'[e].result.error.step = exec[e].i + 1
             /\ exec'[e].result.steps_executed = exec[e].i
             /\ calls' = calls]_vars

----------------------------------------------------------------------------
(* Properties of the scope of a grant *)

\* a capability-scoped grant without a service scope
Unscoped(r) == r.bot_name = NULL /\ r.capability_id # NULL

\* the grants of the table that have a meaningful scope
WellScoped == SelectSeq(permissions, LAMBDA r : ~Unscoped(r))

\* C24: grant_permission stores no grant that has a capability_id and no
\* bot_name, and check_permission never returns true on account of such a row:
\* whenever it returns true it does so on the well-scoped grants alone
C24_GrantScope ==
    /\ \A n \in DOMAIN permissions : ~Unscoped(permissions[n])
    /\ (IsCheck /\ lastCall.value) =>
          check_permission(WellScoped, lastCall.user_id, lastCall.bot_name,
                           lastCall.capability_id, lastCall.permission_level)

----------------------------------------------------------------------------
(* Properties of execute_direct_step and of the frame of the executor *)

\* an execute_direct_step call is made in this step: a call is counted and no
\* execute_command call has started
DirectCall == nCalls' = nCalls + 1 /\ exec' = exec

\* C25: an execute_direct_step call leaves the audit log as it was, whatever
\* its outcome (capability not found, permission denied, no handler, handler
\* failure, success)
C25_DirectNotAudited ==
    [][DirectCall =>
         /\ lastCall'.op = "execute_direct_step"
         /\ audit_logs' = audit_logs]_vars

\* a direct step whose handler raised has returned its failure; the audit log
\* holds the registrations and nothing else
C25_Witness ==
    /\ lastCall.op = "execute_direct_step"
    /\ lastCall.value.success = FALSE
    /\ lastCall.value.error = "RuntimeError"
    /\ calls # <<>>
    /\ calls[Len(calls)].outcome.raised
    /\ audit_logs # <<>>
    /\ \A n \in DOMAIN audit_logs :
          audit_logs[n].action_type = "capability_registered"

\* the capability of the step caller e is about to examine resolves and its
\* permission gate lets e pass
Admitted(e) ==
    LET step == NextStep(e)
        capability == get_capability(capabilities_cache, capabilities,
                                     step.bot_name, step.capability_id)
    IN  /\ capability # None
        /\ permission_gate(permissions, e, step.bot_name, step.capability_id,
                           capability[1])

\* C26: when the loop dispatches a step (capability resolved, gate passed)
\* whose bot has no handler in the handler table, the call returns: the step
\* has a failed outcome with the "No handler registered" error, the result is
\* the dispatch failure and not the capability-not-found one, steps_executed
\* counts the step, no handler is invoked and a failed audit entry is written
C26_NoHandler ==
    [][\A e \in Users :
          (Iterating(e) /\ Admitted(e)
             /\ NextStep(e).bot_name \notin DOMAIN bot_handlers) =>
             LET n == exec[e].i + 1
                 r == exec'[e].result
             IN  /\ exec'[e].pc = "done"
                 /\ r.success = FALSE
                 /\ r.steps_executed = n
                 /\ r.total_steps = Len(exec[e].steps)
                 /\ Len(r.results) = n
                 /\ SubSeq(r.results, 1, n - 1) = exec[e].results
                 /\ r.results[n].step = n
                 /\ r.results[n].success = FALSE
                 /\ r.results[n].result = None
                 /\ r.results[n].error = "No handler registered"
                 /\ r.error.text = "failed"
                 /\ r.error.text # "Capability not found"
                 /\ r.error.cause = "No handler registered"
                 /\ calls' = calls
                 /\ audit_logs' # audit_logs
                 /\ audit_logs'[Len(audit_logs')].success = FALSE]_vars

\* step 2 of a command goes to a bot without a handler after step 1 was
\* dispatched to a bot that has one
C26_Witness ==
    \E e \in Users :
        /\ Reported(e)
        /\ exec[e].result.success = FALSE
        /\ exec[e].result.steps_executed = 2
        /\ exec[e].result.results[1].success
        /\ exec[e].result.results[2].error = "No handler registered"
        /\ exec[e].steps[2].bot_name \notin DOMAIN bot_handlers
        /\ Dispatched(e, 1)
        /\ ~Dispatched(e, 2)

\* a step of the executor: a call of execute_command or execute_direct_step
\* starts, or an execute_command call runs an iteration of its loop
ExecutorStep == nCalls' # nCalls \/ exec' # exec

\* C27: no step of execute_command or execute_direct_step changes the
\* capabilities, permissions or custom_commands table; the one write to the
\* store such a step may make is the append of one command_executed entry to
\* the audit log
C27_StoreFrame ==
    [][ExecutorStep =>
         /\ capabilities' = capabilities
         /\ permissions' = permissions
         /\ custom_commands' = custom_commands
         /\ \/ audit_logs' = audit_logs
            \/ /\ Len(audit_logs') = Len(audit_logs) + 1
               /\ SubSeq(audit_logs', 1, Len(audit_logs)) = audit_logs
               /\ audit_logs'[Len(audit_logs')].action_type = "command_executed"]_vars

\* an execute_command call has run two steps to the end over a store that
\* holds capabilities, a grant and the command
C27_Witness ==
    \E e \in Users :
        /\ Reported(e)
        /\ exec[e].result.success
        /\ exec[e].result.steps_executed = 2
        /\ DOMAIN capabilities # {}
        /\ permissions # <<>>
        /\ exec[e].command_name \in DOMAIN custom_commands
        /\ audit_logs[Len(audit_logs)].action_type = "command_executed"

----------------------------------------------------------------------------
(* Properties of the order of the steps *)

\* the steps for which a handler was invoked in the call caller e is in
StepsCalled(e) == {calls[c].step : c \in CallsOf(e)}

\* C28: an iteration of the loop examines step n only when the outcomes of
\* steps 1..n-1 are all recorded, in order, and successful, and no handler was
\* invoked for step n or a later one; it invokes at most the handler of step
\* n, after the invocations of the steps before it, looks up no capability but
\* that of step n, and goes on to step n+1 or returns
C28_Sequential ==
    [][\A e \in Users :
          Iterating(e) =>
             LET n == exec[e].i + 1
                 step == NextStep(e)
             IN  /\ Len(exec[e].results) = n - 1
                 /\ AllSuccessful(exec[e].results)
                 /\ \A k \in 1..(n - 1) :
                       /\ exec[e].results[k].step = k
                       /\ exec[e].results[k].bot_name = exec[e].steps[k].bot_name
                       /\ exec[e].results[k].capability_id =
                             exec[e].steps[k].capability_id
                 /\ StepsCalled(e) \subseteq 1..(n - 1)
                 /\ \A c, d \in CallsOf(e) :
                       c < d => calls[c].step < calls[d].step
                 /\ \/ calls' = calls
                    \/ /\ Len(calls') = Len(calls) + 1
                       /\ SubSeq(calls', 1, Len(calls)) = calls
                       /\ calls'[Len(calls')].caller = e
                       /\ calls'[Len(calls')].id = exec[e].id
                       /\ calls'[Len(calls')].step = n
                       /\ calls'[Len(calls')].bot_name = step.bot_name
                       /\ calls'[Len(calls')].capability_id = step.capability_id
                 /\ DOMAIN capabilities_cache' \subseteq
                       DOMAIN capabilities_cache
                       \cup {CacheKey(step.bot_name, step.capability_id)}
                 /\ exec'[e].pc = "running" =>
                       /\ exec'[e].i = n
                       /\ Len(exec'[e].results) = n
                       /\ exec'[e].results[n].success
                       /\ calls' # calls]_vars

\* a call of three steps is between its second and its third step: the
\* handlers of steps 1 and 2 were invoked in this order, that of step 3 not yet
C28_Witness ==
    \E e \in Users :
        /\ exec[e].pc = "running"
        /\ Len(exec[e].steps) = 3
        /\ exec[e].i = 2
        /\ exec[e].steps[1] # exec[e].steps[2]
        /\ StepsCalled(e) = {1, 2}
        /\ Cardinality(CallsOf(e)) = 2
        /\ \A c, d \in CallsOf(e) : c < d => calls[c].step < calls[d].step

----------------------------------------------------------------------------
(* Properties of the execution of ungated commands *)

\* the step names a capability of the store that was registered with no
\* permissions required, and its bot is bound to the mock handler
Ungated(step) ==
    /\ <<step.bot_name, step.capability_id>> \in DOMAIN capabilities
    /\ DeclaredPermissions(step.bot_name, step.capability_id) = <<>>
    /\ step.bot_name \in DOMAIN bot_handlers
    /\ bot_handlers[step.bot_name] = "mock"

\* C29: a call, by any user, for a stored command whose steps all name
\* registered capabilities without required permissions on bots bound to the
\* mock handler returns success with steps_executed = total_steps = the number
\* of steps, and a successful command_executed entry is written
C29_UngatedSucceeds ==
    \A e \in Users :
        (Finished(e) /\ Loaded(e)
           /\ \A n \in DOMAIN StoredSteps(e) : Ungated(StoredSteps(e)[n])) =>
           /\ exec[e].result.success
           /\ exec[e].result.steps_executed = Len(StoredSteps(e))
           /\ exec[e].result.total_steps = Len(StoredSteps(e))
           /\ AuditedSuccess(e, exec[e].result.results)

----------------------------------------------------------------------------
(* Properties of the audit log *)

\* C30: the audit log is append-only: whatever operation is performed
\* (register_capability, create_custom_command, execute_command,
\* execute_direct_step), the log never gets shorter and every entry it held
\* is still there, at its place and with its content
C30_AppendOnly ==
    [][/\ Len(audit_logs') >= Len(audit_logs)
       /\ SubSeq(audit_logs', 1, Len(audit_logs)) = audit_logs]_vars

\* the log holds, in this order, two registrations, the creation of a command
\* and its execution
C30_Witness ==
    /\ Len(audit_logs) = 4
    /\ audit_logs[1].action_type = "capability_registered"
    /\ audit_logs[2].action_type = "capability_registered"
    /\ audit_logs[3].action_type = "command_created"
    /\ audit_logs[4].action_type = "command_executed"
    /\ audit_logs[4].details.command_name = audit_logs[3].details.command_name

----------------------------------------------------------------------------
(* Properties of the termination of execute_command *)

\* the handler invocations of caller e's call for step n
CallsForStep(e, n) == {c \in CallsOf(e) : calls[c].step = n}

----------------------------------------------------------------------------
(* Properties of the command store *)

\* a save_custom_command call returns in this step
SaveStep ==
    /\ lastCall'.op = "save_custom_command"
    /\ lastCall' # lastCall \/ DOMAIN custom_commands' # DOMAIN custom_commands

\* C33: save_custom_command for a name that is already stored, enabled or
\* not, returns false; no step changes the description, steps or creator of a
\* stored command or removes it; a save for a new name returns true and stores
\* exactly that command, so a name stands for the command first saved under it
C33_NamesUnique ==
    [][/\ \A n \in DOMAIN custom_commands :
             /\ n \in DOMAIN custom_commands'
             /\ custom_commands'[n].command_name = n
             /\ custom_commands'[n].description = custom_commands[n].description
             /\ custom_commands'[n].steps = custom_commands[n].steps
             /\ custom_commands'[n].created_by = custom_commands[n].created_by
       /\ SaveStep =>
             LET name == lastCall'.command_name
             IN  /\ lastCall'.value = (name \notin DOMAIN custom_commands)
                 /\ DOMAIN custom_commands' = DOMAIN custom_commands \cup {name}
                 /\ lastCall'.value =>
                       /\ custom_commands'[name].description = lastCall'.description
                       /\ StepsLoads(custom_commands'[name].steps) = lastCall'.steps
                       /\ custom_commands'[name].created_by = lastCall'.created_by]_vars

\* a save under a name that another user holds, with another description and
\* other steps, has returned false; the stored command is disabled
C33_Witness ==
    /\ lastCall.op = "save_custom_command"
    /\ lastCall.value = FALSE
    /\ lastCall.command_name \in DOMAIN custom_commands
    /\ custom_commands[lastCall.command_name].created_by # lastCall.created_by
    /\ custom_commands[lastCall.command_name].description # lastCall.description
    /\ StepsLoads(custom_commands[lastCall.command_name].steps) # lastCall.steps
    /\ custom_commands[lastCall.command_name].enabled = 0
    /\ Cardinality(DOMAIN custom_commands) = 2

----------------------------------------------------------------------------
(* Properties of concurrent execute_command calls *)

\* what the handler of each step answered to caller e; steps without an
\* invocation have none
OutcomesOf(e) ==
    [n \in 1..Len(exec[e].steps) |->
        IF CallsForStep(e, n) = {} THEN NotCalled
        ELSE calls[CHOOSE c \in CallsForStep(e, n) : TRUE].outcome]

\* the command_executed entries of the audit log written for user e
ExecutedEntries(e) ==
    {n \in DOMAIN audit_logs : /\ audit_logs[n].action_type = "command_executed"
                               /\ audit_logs[n].user_id = e}

\* C32: however the iterations of the two users' calls interleave, with the
\* capabilities, grants, commands and handler table fixed, a call returns the
\* result execute_command computes for it on its own from the same handler
\* answers, it invokes the handlers of exactly the steps that result reports
\* as dispatched, and each call writes one command_executed entry: none while
\* it runs, two once both have returned
C32_NoInterference ==
    \A e \in Users :
        /\ Finished(e) =>
              /\ exec[e].result =
                    execute_command(e, exec[e].command_name, OutcomesOf(e))
              /\ Cardinality(ExecutedEntries(e)) = 1
              /\ \A n \in ExecutedEntries(e) :
                    /\ audit_logs[n].success = exec[e].result.success
                    /\ audit_logs[n].details.command_name = exec[e].command_name
              /\ Reported(e) =>
                    StepsCalled(e) =
                       {n \in DOMAIN exec[e].result.results :
                           exec[e].result.results[n].bot_name
                              \in DOMAIN bot_handlers}
        /\ ~Finished(e) => ExecutedEntries(e) = {}

\* both calls have returned after their handler invocations alternated:
\* "alice" ran two steps to success, "bob" was denied at his second step, and
\* the audit log holds their two entries
C32_Witness ==
    /\ Reported("alice") /\ Reported("bob")
    /\ exec["alice"].command_name # exec["bob"].command_name
    /\ exec["alice"].result.success
    /\ exec["alice"].result.steps_executed = 2
    /\ ~exec["bob"].result.success
    /\ exec["bob"].result.error.text = "Permission denied"
    /\ exec["bob"].result.steps_executed = 1
    /\ Len(calls) = 3
    /\ calls[1].caller = "alice"
    /\ calls[2].caller = "bob"
    /\ calls[3].caller = "alice"
    /\ Cardinality(ExecutedEntries("alice") \cup ExecutedEntries("bob")) = 2

----------------------------------------------------------------------------
(* Properties of register_capability, statement by statement *)

\* the key caller p registers
KeyOf(p) == <<exec[p].bot_name, exec[p].capability_id>>

\* the capability_registered entries of the audit log for key k
RegisteredEntries(k) ==
    {n \in DOMAIN audit_logs :
        /\ audit_logs[n].action_type = "capability_registered"
        /\ audit_logs[n].details.bot_name = k[1]
        /\ audit_logs[n].details.capability_id = k[2]}

\* caller p has returned from register_capability with value v
RegisterReturned(p, v) == exec[p].pc = "returned" /\ exec[p].success = v

\* C34: a register_capability call that succeeds first inserts the row in the
\* store, then writes the cache entry, then appends one capability_registered
\* entry, each in a step of its own that leaves the other two alone, and
\* returns true with all three in place; a call that returns false has made
\* one step, which changed neither the store, nor the cache, nor the audit log
C34_RegisterOrdered ==
    [][\A p \in Users :
          LET k == <<exec'[p].bot_name, exec'[p].capability_id>>
              key == CacheKey(k[1], k[2])
          IN  /\ (exec[p].pc = "idle" /\ exec'[p].pc # "idle") =>
                    /\ exec'[p].success = (k \notin DOMAIN capabilities)
                    /\ capabilities_cache' = capabilities_cache
                    /\ audit_logs' = audit_logs
                    /\ IF exec'[p].success
                       THEN /\ exec'[p].pc = "inserted"
                            /\ DOMAIN capabilities' = DOMAIN capabilities \cup {k}
                            /\ capabilities'[k].description = exec'[p].description
                            /\ \A o \in DOMAIN capabilities :
                                  capabilities'[o] = capabilities[o]
                       ELSE /\ exec'[p].pc = "returned"
                            /\ capabilities' = capabilities
              /\ (exec[p].pc = "inserted" /\ exec'[p].pc # "inserted") =>
                    /\ exec'[p].pc = "cached"
                    /\ k \in DOMAIN capabilities
                    /\ capabilities' = capabilities
                    /\ audit_logs' = audit_logs
                    /\ key \in DOMAIN capabilities_cache'
                    /\ capabilities_cache'[key].description = exec[p].description
                    /\ capabilities_cache'[key].permissions_required =
                          exec[p].permissions_required
              /\ (exec[p].pc = "cached" /\ exec'[p].pc # "cached") =>
                    /\ exec'[p].pc = "returned"
                    /\ exec'[p].success
                    /\ k \in DOMAIN capabilities
                    /\ key \in DOMAIN capabilities_cache
                    /\ capabilities' = capabilities
                    /\ capabilities_cache' = capabilities_cache
                    /\ Len(audit_logs') = Len(audit_logs) + 1
                    /\ SubSeq(audit_logs', 1, Len(audit_logs)) = audit_logs
                    /\ audit_logs'[Len(audit_logs')].action_type =
                          "capability_registered"
                    /\ audit_logs'[Len(audit_logs')].details.bot_name = k[1]
                    /\ audit_logs'[Len(audit_logs')].details.capability_id = k[2]
              /\ exec[p].pc = "returned" => exec'[p] = exec[p]]_vars

\* one caller has returned true and the other, who asked for the same key
\* with another description, has returned false: the store, the cache and the
\* audit log hold the first caller's registration and nothing else
C34_Witness ==
    \E p, q \in Users :
        /\ RegisterReturned(p, TRUE)
        /\ RegisterReturned(q, FALSE)
        /\ KeyOf(p) = KeyOf(q)
        /\ exec[p].description # exec[q].description
        /\ DOMAIN capabilities = {KeyOf(p)}
        /\ capabilities[KeyOf(p)].description = exec[p].description
        /\ DOMAIN capabilities_cache = {CacheKey(KeyOf(p)[1], KeyOf(p)[2])}
        /\ Len(audit_logs) = 1
        /\ RegisteredEntries(KeyOf(p)) = {1}

\* the two callers are past their INSERT with the same key
Raced(p, q) ==
    /\ p # q
    /\ exec[p].pc # "idle" /\ exec[q].pc # "idle"
    /\ KeyOf(p) = KeyOf(q)

\* C40: when the two callers register the same key with different
\* descriptions, however their statements interleave, one INSERT succeeds
\* and the other is rejected; once both have returned exactly one of them has
\* returned true, the audit log holds one capability_registered entry for the
\* key, and the store and the cache hold the description, parameters and
\* required permissions of the call that returned true
C40_RegisterRace ==
    \A p, q \in Users :
        Raced(p, q) =>
            /\ exec[p].success # exec[q].success
            /\ Cardinality(RegisteredEntries(KeyOf(p))) <= 1
            /\ (exec[p].pc = "returned" /\ exec[q].pc = "returned"
                  /\ exec[p].success) =>
                  LET k == KeyOf(p)
                      key == CacheKey(k[1], k[2])
                  IN  /\ Cardinality(RegisteredEntries(k)) = 1
                      /\ \A n \in RegisteredEntries(k) :
                            audit_logs[n].details.description = exec[p].description
                      /\ k \in DOMAIN capabilities
                      /\ capabilities[k] =
                            CapabilityRow(k[1], k[2], exec[p].description,
                                          exec[p].parameters,
                                          exec[p].permissions_required)
                      /\ key \in DOMAIN capabilities_cache
                      /\ capabilities_cache[key] =
                            CacheEntry(k[1], k[2], exec[p].description,
                                       exec[p].parameters,
                                       exec[p].permissions_required)

\* both callers have returned: the one who registered "second" returned true,
\* the one who registered "first" false, and the store, the cache and the one
\* audit entry of the key say "second"
C40_Witness ==
    \E p, q \in Users :
        /\ Raced(p, q)
        /\ RegisterReturned(p, TRUE)
        /\ RegisterReturned(q, FALSE)
        /\ exec[p].description = "second"
        /\ exec[q].description = "first"
        /\ capabilities[KeyOf(p)].description = "second"
        /\ capabilities_cache[CacheKey(KeyOf(p)[1], KeyOf(p)[2])].description
              = "second"
        /\ Cardinality(RegisteredEntries(KeyOf(p))) = 1

----------------------------------------------------------------------------
(* Properties of execute_direct_step against execute_command *)

\* the one-step command that holds the step of the direct call just made
DirectStep ==
    <<[bot_name |-> lastCall'.bot_name, capability_id |-> lastCall'.capability_id,
       parameters |-> NoParameters]>>

\* C35: an execute_direct_step call returns success exactly when
\* execute_command, for the same user over the same registry, grants and
\* handler table and with the same answer of the handler, returns success for
\* a command made of that one step; the direct call invokes the handler
\* exactly when execute_command does, and agrees with it on which of the
\* failures (not found, denied, dispatch) stopped the step
C35_DirectAgrees ==
    [][DirectCall =>
         LET invoked == calls' # calls
             outcome == IF invoked THEN calls'[Len(calls')].outcome
                        ELSE NotCalled
             expected == execute_command_steps(lastCall'.user_id, DirectStep,
                                               0, <<>>, <<outcome>>)
             dispatched == expected.results # <<>>
         IN  /\ lastCall'.value.success = expected.success
             /\ invoked =
                   (dispatched /\ lastCall'.bot_name \in DOMAIN bot_handlers)
             /\ (lastCall'.value.error = "Capability not found") =
                   (~expected.success /\ ~dispatched
                      /\ expected.error.text = "Capability not found")
             /\ (lastCall'.value.error = "Permission denied") =
                   (~expected.success /\ ~dispatched
                      /\ expected.error.text = "Permission denied")
             /\ dispatched =>
                   /\ lastCall'.value.error = expected.results[1].error
                   /\ lastCall'.value.result = expected.results[1].result]_vars

\* "alice", who holds a grant, has run a gated capability directly and the
\* handler was invoked; "bob", who holds none, would be denied
C35_Witness ==
    /\ lastCall.op = "execute_direct_step"
    /\ lastCall.user_id = "alice"
    /\ lastCall.value.success
    /\ DeclaredPermissions(lastCall.bot_name, lastCall.capability_id) # <<>>
    /\ permissions # <<>>
    /\ calls # <<>>
    /\ calls[Len(calls)].id = 0
    /\ calls[Len(calls)].caller = "alice"
    /\ ~execute_command_steps("bob",
           <<[bot_name |-> lastCall.bot_name,
              capability_id |-> lastCall.capability_id,
              parameters |-> NoParameters]>>, 0, <<>>, <<NotCalled>>).success

----------------------------------------------------------------------------
(* Properties of the shape of the result of execute_command *)

\* the result of caller e stopped at a step that was not dispatched
StoppedUndispatched(r) ==
    ~r.success /\ r.error.text \in {"Capability not found", "Permission denied"}

\* C36: in every result of execute_command that has an outcome list, outcome
\* number k is that of step k and says so, every outcome but the last is
\* successful, steps_executed is the length of the list (a dispatch failure
\* counts its failed step, whose failed outcome is the last of the list; a
\* step that did not resolve or was denied has no outcome and is not counted,
\* so steps_executed is its 0-based index), a successful result has one
\* successful outcome per step, and steps_executed never exceeds total_steps
C36_ResultShape ==
    \A e \in Users :
        Reported(e) =>
            LET r == exec[e].result
                n == Len(r.results)
            IN  /\ \A k \in 1..n :
                      /\ r.results[k].step = k
                      /\ r.results[k].bot_name = exec[e].steps[k].bot_name
                      /\ r.results[k].capability_id =
                            exec[e].steps[k].capability_id
                /\ \A k \in 1..(n - 1) : r.results[k].success
                /\ r.steps_executed = n
                /\ r.steps_executed <= r.total_steps
                /\ r.total_steps = Len(exec[e].steps)
                /\ r.success => (n = r.total_steps /\ AllSuccessful(r.results))
                /\ StoppedUndispatched(r) =>
                      /\ AllSuccessful(r.results)
                      /\ r.error.step = n + 1
                      /\ n < r.total_steps
                /\ (~r.success /\ ~StoppedUndispatched(r)) =>
                      /\ n >= 1
                      /\ ~r.results[n].success
                      /\ r.error.step = n

\* a call of three steps was denied at its second step: one outcome, of step
\* 1, steps_executed = 1
C36_Witness ==
    \E e \in Users :
        /\ Reported(e)
        /\ exec[e].result.total_steps = 3
        /\ exec[e].result.error.text = "Permission denied"
        /\ exec[e].result.error.step = 2
        /\ exec[e].result.steps_executed = 1
        /\ Len(exec[e].result.results) = 1
        /\ exec[e].result.results[1].step = 1

----------------------------------------------------------------------------
(* Properties of the cache key *)

\* C37: for every bot_name b and capability_id c, names that hold ':'
\* included, get_capability(b, c) answers None or a capability whose bot_name
\* is b and whose capability_id is c, and two different registered pairs never
\* have the same cache key
C37_KeyedByPair ==
    /\ \A k \in RegKeys \cup DOMAIN capabilities :
          \/ Get(k[1], k[2]) = None
          \/ /\ Get(k[1], k[2])[1].bot_name = k[1]
             /\ Get(k[1], k[2])[1].capability_id = k[2]
    /\ \A k, o \in DOMAIN capabilities :
          k # o => CacheKey(k[1], k[2]) # CacheKey(o[1], o[2])

----------------------------------------------------------------------------
(* Properties of the origin of a cache entry *)

\* the levels of a permissions_required value
LevelSet(permissions_required) ==
    {permissions_required[n] : n \in DOMAIN permissions_required}

\* C38: whether the registry answers for a capability with an entry written
\* by register_capability or with one loaded from the store, its
\* permissions_required is the set of levels the capability was registered
\* with, and the gate lets a user pass exactly when none is required or
\* check_permission holds for one of those levels
C38_GateIndependentOfOrigin ==
    \A k \in DOMAIN capabilities :
        LET cap == Get(k[1], k[2])
            declared == DeclaredPermissions(k[1], k[2])
        IN  cap # None =>
              /\ LevelSet(cap[1].permissions_required) = LevelSet(declared)
              /\ \A u \in Users :
                    permission_gate(permissions, u, k[1], k[2], cap[1])
                       = (\/ declared = <<>>
                          \/ \E n \in DOMAIN declared :
                                check_permission(permissions, u, k[1], k[2],
                                                 declared[n]))

----------------------------------------------------------------------------
(* Properties of several grants at one scope *)

\* two grants of one user at one scope
SameScope(r, s) ==
    /\ r.user_id = s.user_id
    /\ r.bot_name = s.bot_name
    /\ r.capability_id = s.capability_id

\* the grants among the first n of the table that are the earliest of their
\* user and scope, in the order of the table
RECURSIVE EarliestGrants(_)
EarliestGrants(n) ==
    IF n = 0 THEN <<>>
    ELSE IF \E m \in 1..(n - 1) : SameScope(permissions[m], permissions[n])
    THEN EarliestGrants(n - 1)
    ELSE Append(EarliestGrants(n - 1), permissions[n])

\* the answer of check_permission on table to the query of the last call
AnswerOn(table) ==
    check_permission(table, lastCall.user_id, lastCall.bot_name,
                     lastCall.capability_id, lastCall.permission_level)

\* the table before its last grant was stored
BeforeLastGrant == SubSeq(permissions, 1, Len(permissions) - 1)

\* C39: check_permission answers a query as it would on the table that
\* holds, for each user and scope, the earliest-stored grant only; and when
\* the grant stored last is at a scope where its user already held one, the
\* answer is what it was before that grant was stored
C39_EarliestGrantDecides ==
    IsCheck =>
        /\ lastCall.value = AnswerOn(EarliestGrants(Len(permissions)))
        /\ (\E m \in 1..(Len(permissions) - 1) :
               SameScope(permissions[m], permissions[Len(permissions)])) =>
              lastCall.value = AnswerOn(BeforeLastGrant)

\* a user holds a read grant and, stored after it, an admin grant on the same
\* capability; asked for execute, check_permission has answered false
C39_Witness ==
    /\ IsCheck
    /\ lastCall.permission_level = "execute"
    /\ lastCall.value = FALSE
    /\ Len(permissions) = 2
    /\ SameScope(permissions[1], permissions[2])
    /\ permissions[1].user_id = lastCall.user_id
    /\ permissions[1].bot_name = lastCall.bot_name
    /\ permissions[1].capability_id = lastCall.capability_id
    /\ permissions[1].permission_level = "read"
    /\ permissions[2].permission_level = "admin"

====
